---- MODULE Spec2Model ----
(***************************************************************************)
(* A model of the bean resolution engine of minimalist-async-di            *)
(* (src/src/container.js): the registration, pending and resolved stores,  *)
(* register / replacement, get, and the asynchronous construction of a     *)
(* bean with its dependencies and its child properties.                    *)
(*                                                                         *)
(* JavaScript runs each synchronous segment atomically, so one action is   *)
(* one synchronous segment: a call of register or get together with every  *)
(* nested _resolveBeanNamed it makes before its first await, or one        *)
(* continuation after an await.  Continuations of settled promises may run *)
(* in any order here (caller-supplied creators may take arbitrarily long). *)
(***************************************************************************)
EXTENDS Integers, Sequences, FiniteSets, TLC

(***************************************************************************)
(* Bounds of the model.                                                    *)
(***************************************************************************)
MaxRegs == 3
MaxGets == 2

(***************************************************************************)
(* Bean names are strings; they are modelled as sequences of characters so *)
(* that the parsing of a property path is computed as the code does.       *)
(***************************************************************************)
NA == <<"a">>
NB == <<"b">>
NAB == <<"a", ".", "b">>
NAbr == <<"a", "[", "b", "]">>
Names == {NA, NB, NAB}
\* Every name that is registered somewhere below; Names are the ones the
\* general configurations use.
AllNames == Names \cup {NAbr}
NoName == <<>>

Max(S) == CHOOSE x \in S : \A y \in S : y <= x

\* String.prototype.lastIndexOf, 1-based; 0 stands for JavaScript's -1.
lastIndexOf(name, ch) ==
  LET I == {i \in 1..Len(name) : name[i] = ch}
  IN IF I = {} THEN 0 ELSE Max(I)

identifyParentAndDotProperty(name) ==
  LET lastDot == lastIndexOf(name, ".")
  IN IF lastDot = 0 THEN <<NoName, NoName>>
     ELSE <<SubSeq(name, 1, lastDot - 1), SubSeq(name, lastDot + 1, Len(name))>>

identifyParentAndBracketProperty(name) ==
  LET openingBracket == lastIndexOf(name, "[")
  IN IF openingBracket = 0 THEN <<NoName, NoName>>
     ELSE <<SubSeq(name, 1, openingBracket - 1),
            SubSeq(name, openingBracket + 1, Len(name) - 1)>>

identifyParentAndProperty(name) ==
  IF Len(name) > 0 /\ name[Len(name)] = "]"
  THEN identifyParentAndBracketProperty(name)
  ELSE identifyParentAndDotProperty(name)

\* `!parentName || !propertyName`: null and the empty string are both falsy.
HasParent(name) ==
  /\ identifyParentAndProperty(name)[1] # NoName
  /\ identifyParentAndProperty(name)[2] # NoName

(***************************************************************************)
(* Values.  An object is identified by the registration that made it       *)
(* (rid), the bean it was made for and the number of the creator call for  *)
(* that bean (0 and no bean: the payload handed to value() or the value of *)
(* the promise handed to promise()).                                       *)
(***************************************************************************)
Undefined == [k |-> "undefined", id |-> <<0, <<>>, 0>>]
Null == [k |-> "null", id |-> <<0, <<>>, 0>>]
EmptyString == [k |-> "string", id |-> <<0, <<>>, 0>>]
Obj(rid, name, call) == [k |-> "obj", id |-> <<rid, name, call>>]
Truthy(v) == v.k = "obj"

(***************************************************************************)
(* Errors: the class (BeanError or a plain Error), the root cause and the  *)
(* beans of the enclosing "while creating bean" frames, innermost first.   *)
(***************************************************************************)
NoErr == [cls |-> "none", root |-> "none", frames |-> <<>>]
BeanError(root) == [cls |-> "BeanError", root |-> root, frames |-> <<>>]
OpaqueError(root) == [cls |-> "Error", root |-> root, frames |-> <<>>]

\* A variant of the catch that always throws a plain Error.
WhileCreatingPlain(name, e) ==
  [cls |-> "Error", root |-> e.root, frames |-> Append(e.frames, name)]

\* _createBeanForRegistration's catch: a BeanError stays a BeanError.
WhileCreating(name, e) ==
  [cls |-> IF e.cls = "BeanError" THEN "BeanError" ELSE "Error",
   root |-> e.root, frames |-> Append(e.frames, name)]

\* A variant that rethrows the parent's error as it is.
WhileResolvingParentPassing(e) == e

\* _resolveBeanNamed, the parent of a property path failed with a BeanError.
WhileResolvingParent(e) ==
  [cls |-> "BeanError", root |-> "nobean", frames |-> e.frames]

(***************************************************************************)
(* Registrations (the object _register stores): the creator, what the      *)
(* caller-supplied callable does when invoked (behav), the dependency      *)
(* configs and the children queued while the bean is only registered.      *)
(***************************************************************************)
NoReg ==
  [name |-> NoName, rid |-> 0, kind |-> "none", behav |-> "ok",
   payload |-> Undefined, dependencies |-> <<>>, children |-> <<>>,
   setter |-> "default"]

Dep(inj, name) == [inj |-> inj, name |-> name]

(***************************************************************************)
(* A handle is the promise one call of _resolveBeanNamed returned, as its  *)
(* caller sees it: rejected at once, resolved at once with the outcome     *)
(* object of a created bean, waiting on one promise of the pending store,  *)
(* or a property read that waits for its parent.                           *)
(***************************************************************************)
NoHandle == [t |-> "none"]
Rejected(e) == [t |-> "rejected", err |-> e]
Outcome(n) == [t |-> "outcome", n |-> n]
Link(n, k) == [t |-> "link", n |-> n, k |-> k]
Prop(ph, prop) == [t |-> "prop", ph |-> ph, prop |-> prop]

Nullish(v) == v.k \in {"undefined", "null"}

\* defaultGetter on a plain object: this[name].
defaultGetter(hp, bean, name) ==
  IF \E e \in hp : e.obj = bean.id /\ e.prop = name
  THEN (CHOOSE e \in hp : e.obj = bean.id /\ e.prop = name).val
  ELSE Undefined

\* defaultSetter on a plain object: this[name] = value.
defaultSetter(hp, bean, name, value) ==
  {e \in hp : ~(e.obj = bean.id /\ e.prop = name)}
     \cup {[obj |-> bean.id, prop |-> name, val |-> value]}

(***************************************************************************)
(* What a handle has settled to in container s with heap hp: st is "wait", *)
(* "ok" (bean and error are the fields of the object it resolved with) or  *)
(* "rej" (error is the reason).  A property read (lines 221-244 and        *)
(* 192-207) settles once its parent has: a BeanError of the parent becomes *)
(* the combined "no bean registered" BeanError, any other error of the     *)
(* parent passes unchanged, else the parent's getter is called.            *)
(***************************************************************************)
RECURSIVE Settle(_, _, _)
Settle(s, hp, h) ==
  CASE h.t = "rejected" -> [st |-> "rej", bean |-> Undefined, error |-> h.err]
    [] h.t = "outcome" ->
         [st |-> "ok", bean |-> s.outc[h.n].bean, error |-> s.outc[h.n].error]
    [] h.t = "link" ->
         LET l == s.chain[h.n][h.k]
         IN CASE l.st = "ok" -> [st |-> "ok", bean |-> s.outc[h.n].bean,
                                 error |-> s.outc[h.n].error]
              [] l.st = "rej" -> [st |-> "rej", bean |-> Undefined, error |-> l.err]
              [] OTHER -> [st |-> "wait", bean |-> Undefined, error |-> NoErr]
    [] h.t = "prop" ->
         LET p == Settle(s, hp, h.ph)
         IN CASE p.st = "wait" -> p
              [] p.st = "rej" \/ p.error # NoErr ->
                   [st |-> "rej", bean |-> Undefined,
                    error |-> IF p.error.cls = "BeanError"
                              THEN WhileResolvingParent(p.error) ELSE p.error]
              [] Nullish(p.bean) ->
                   [st |-> "rej", bean |-> Undefined,
                    error |-> OpaqueError("typeerror")]
              [] OTHER ->
                   [st |-> "ok", bean |-> defaultGetter(hp, p.bean, h.prop),
                    error |-> NoErr]
    [] OTHER -> [st |-> "ok", bean |-> Undefined, error |-> NoErr]

\* Container#get on top of a handle: `if (bean.error) throw bean.error`.
GetResult(s, hp, h) ==
  LET r == Settle(s, hp, h)
  IN IF r.st = "ok" /\ r.error # NoErr
     THEN [st |-> "rej", bean |-> Undefined, error |-> r.error]
     ELSE r

(***************************************************************************)
(* The promises the pending store has held for a name, oldest first: the   *)
(* one _createPromise made ("deferred"), Promise.resolve(createdBean)      *)
(* ("resolved") and pendingWithProperty ("withProperty", chained on prev). *)
(* st: "wait", "child" (the parent settled well, the child is awaited),    *)
(* "ok" (resolved with the bean's outcome object) or "rej".                *)
(***************************************************************************)
DeferredLink ==
  [t |-> "deferred", st |-> "wait", err |-> NoErr, prev |-> 0,
   name |-> NoName, propertyName |-> NoName, child |-> NoHandle]
ResolvedLink ==
  [t |-> "resolved", st |-> "ok", err |-> NoErr, prev |-> 0,
   name |-> NoName, propertyName |-> NoName, child |-> NoHandle]
WithPropertyLink(prev, name, propertyName, child) ==
  [t |-> "withProperty", st |-> "wait", err |-> NoErr, prev |-> prev,
   name |-> name, propertyName |-> propertyName, child |-> child]

NoTask ==
  [pc |-> "none", registration |-> NoReg, link |-> 0, deps |-> <<>>,
   kids |-> <<>>, args |-> <<>>]

NoOutcome == [bean |-> Undefined, error |-> NoErr]

VARIABLES
  registrations,  \* this._registrations: name -> registration, or NoReg
  pending,        \* this._pending: name -> index into chain[name], or 0
  beans,          \* this._beans: whether the name has an outcome stored
  outc,           \* the outcome object { bean, error } made for each name
  chain,          \* the promises of the pending store, per name
  task,           \* _createBeanForRegistration's activation, per name
  heap,           \* the properties set on bean objects
  gets,           \* the calls of get made from outside, in call order
  creatorCalls,   \* how often the callable was invoked to create each bean
  regLog,         \* the register calls that returned, in call order
  seeks,          \* the last call of a seeker-injected function
  thrown,         \* the last call of register that threw
  setting         \* the calls of asynchronous custom setters and their futures

store == <<registrations, pending, beans>>
vars == <<registrations, pending, beans, outc, chain, task, heap, gets,
          creatorCalls, regLog, seeks, thrown, setting>>

\* The container as one record, for the synchronous segments below.
Cur ==
  [registrations |-> registrations, pending |-> pending, beans |-> beans,
   outc |-> outc, chain |-> chain, task |-> task]

Commit(s) ==
  /\ registrations' = s.registrations
  /\ pending' = s.pending
  /\ beans' = s.beans
  /\ outc' = s.outc
  /\ chain' = s.chain
  /\ task' = s.task

(***************************************************************************)
(* _resolveBeanNamed up to its first await, with every nested call it      *)
(* makes synchronously.  Returns the container and the caller's handle.    *)
(***************************************************************************)
RECURSIVE resolveBeanNamed(_, _, _)
RECURSIVE maybeResolvePropertyOfParentBean(_, _, _)
RECURSIVE createBeanForRegistration(_, _, _, _)
RECURSIVE resolveDependencies(_, _, _, _)

\* A variant in which a promise() threads the dependant path as well.
resolveDependencyThreading(s, config, dependants) ==
  CASE config.inj \in {"bean", "promise"} ->
         resolveBeanNamed(s, config.name, dependants)
    [] OTHER -> [s |-> s, h |-> NoHandle]

\* A variant in which promiser() resolves its target when it is injected.
resolveDependencyEager(s, config, dependants) ==
  CASE config.inj = "bean" -> resolveBeanNamed(s, config.name, dependants)
    [] config.inj \in {"promise", "promiser"} ->
         resolveBeanNamed(s, config.name, {})
    [] OTHER -> [s |-> s, h |-> NoHandle]

\* _resolveDependency: a direct reference threads the dependant path, a
\* promise() starts from an empty one, promiser() and seeker() resolve nothing.
resolveDependency(s, config, dependants) ==
  CASE config.inj = "bean" -> resolveBeanNamed(s, config.name, dependants)
    [] config.inj = "promise" -> resolveBeanNamed(s, config.name, {})
    [] OTHER -> [s |-> s, h |-> NoHandle]

resolveDependencies(s, configs, dependants, acc) ==
  IF configs = <<>> THEN [s |-> s, deps |-> acc]
  ELSE LET config == Head(configs)
           r == resolveDependency(s, config, dependants)
       IN resolveDependencies(r.s, Tail(configs), dependants,
            Append(acc, [inj |-> config.inj, name |-> config.name, h |-> r.h]))

\* Lines 246-252: the dependencies are resolved under dependants + own name.
createBeanForRegistration(s, key, registration, dependants) ==
  LET dependencyDependants == dependants \cup {registration.name}
      r == resolveDependencies(s, registration.dependencies,
                               dependencyDependants, <<>>)
  IN [r.s EXCEPT !.task[key] =
        [pc |-> "deps", registration |-> registration,
         link |-> Len(s.chain[key]), deps |-> r.deps, kids |-> <<>>,
         args |-> <<>>]]

\* A variant that neither stores the promise as pending nor deletes the
\* registration: every get would start the construction again.
takeRegistrationKeeping(s, name) ==
  [s EXCEPT !.chain[name] = Append(@, DeferredLink)]

\* Lines 176-183: install the pending promise, take the registration.
takeRegistration(s, name) ==
  [s EXCEPT !.chain[name] = Append(@, DeferredLink),
            !.pending[name] = Len(s.chain[name]) + 1,
            !.registrations[name] = NoReg]

\* A variant whose failure for a name without a parent is a plain Error.
maybeResolvePropertyOfParentBeanPlain(s, name, dependants) ==
  IF ~HasParent(name) THEN [s |-> s, h |-> Rejected(OpaqueError("nobean"))]
  ELSE LET pp == identifyParentAndProperty(name)
           r == resolveBeanNamed(s, pp[1], dependants)
       IN [s |-> r.s, h |-> Prop(r.h, pp[2])]

maybeResolvePropertyOfParentBean(s, name, dependants) ==
  IF ~HasParent(name) THEN [s |-> s, h |-> Rejected(BeanError("nobean"))]
  ELSE LET pp == identifyParentAndProperty(name)
           r == resolveBeanNamed(s, pp[1], dependants)
       IN [s |-> r.s, h |-> Prop(r.h, pp[2])]

\* A variant without the check of line 164.
resolveBeanNamedUnchecked(s, name, dependants) ==
  IF name \notin AllNames THEN maybeResolvePropertyOfParentBean(s, name, dependants)
  ELSE IF s.beans[name] THEN [s |-> s, h |-> Outcome(name)]
  ELSE IF s.pending[name] # 0 THEN [s |-> s, h |-> Link(name, s.pending[name])]
  ELSE IF s.registrations[name] # NoReg THEN
    LET registration == s.registrations[name]
        s1 == takeRegistration(s, name)
    IN [s |-> createBeanForRegistration(s1, name, registration, dependants),
        h |-> Link(name, Len(s1.chain[name]))]
  ELSE maybeResolvePropertyOfParentBean(s, name, dependants)

\* A variant that reads a name with a parent through the parent first.
resolveBeanNamedPathFirst(s, name, dependants) ==
  IF name \in dependants THEN [s |-> s, h |-> Rejected(BeanError("cycle"))]
  ELSE IF /\ HasParent(name)
          /\ identifyParentAndProperty(name)[1] \in AllNames
          /\ s.beans[identifyParentAndProperty(name)[1]]
    THEN maybeResolvePropertyOfParentBean(s, name, dependants)
  ELSE IF name \notin AllNames THEN maybeResolvePropertyOfParentBean(s, name, dependants)
  ELSE IF s.beans[name] THEN [s |-> s, h |-> Outcome(name)]
  ELSE IF s.pending[name] # 0 THEN [s |-> s, h |-> Link(name, s.pending[name])]
  ELSE IF s.registrations[name] # NoReg THEN
    LET registration == s.registrations[name]
        s1 == takeRegistration(s, name)
    IN [s |-> createBeanForRegistration(s1, name, registration, dependants),
        h |-> Link(name, Len(s1.chain[name]))]
  ELSE maybeResolvePropertyOfParentBean(s, name, dependants)

resolveBeanNamed(s, name, dependants) ==
  IF name \in dependants THEN [s |-> s, h |-> Rejected(BeanError("cycle"))]
  ELSE IF name \notin AllNames THEN maybeResolvePropertyOfParentBean(s, name, dependants)
  ELSE IF s.beans[name] THEN [s |-> s, h |-> Outcome(name)]
  ELSE IF s.pending[name] # 0 THEN [s |-> s, h |-> Link(name, s.pending[name])]
  ELSE IF s.registrations[name] # NoReg THEN
    LET registration == s.registrations[name]
        s1 == takeRegistration(s, name)
    IN [s |-> createBeanForRegistration(s1, name, registration, dependants),
        h |-> Link(name, Len(s1.chain[name]))]
  ELSE maybeResolvePropertyOfParentBean(s, name, dependants)

(***************************************************************************)
(* _maybeRegisterInParentBean(name), lines 121-156.                        *)
(***************************************************************************)
\* A variant that leaves the parent in the outcome store.
reopenParentKeeping(s, parentName) ==
  [s EXCEPT !.chain[parentName] = Append(@, ResolvedLink),
            !.pending[parentName] = Len(s.chain[parentName]) + 1]

\* Lines 126-131: a created parent goes back to the pending store.
reopenParent(s, parentName) ==
  [s EXCEPT !.beans[parentName] = FALSE,
            !.chain[parentName] = Append(@, ResolvedLink),
            !.pending[parentName] = Len(s.chain[parentName]) + 1]

\* Lines 133-149: this.get(name) starts the child, pendingWithProperty
\* replaces the parent's pending promise.
chainOnPendingParent(s, parentName, propertyName, name) ==
  LET pendingBean == s.pending[parentName]
      r == resolveBeanNamed(s, name, {})
  IN [r.s EXCEPT
        !.chain[parentName] =
           Append(@, WithPropertyLink(pendingBean, name, propertyName, r.h)),
        !.pending[parentName] = Len(r.s.chain[parentName]) + 1]

maybeRegisterInParentBean(s, name) ==
  LET pp == identifyParentAndProperty(name)
      parentName == pp[1]
      propertyName == pp[2]
  IN IF ~HasParent(name) \/ parentName \notin AllNames THEN s
     ELSE IF s.beans[parentName]
             /\ (~Truthy(s.outc[parentName].bean)
                 \/ s.outc[parentName].error # NoErr)
     THEN s
     ELSE LET s1 == IF s.beans[parentName]
                    THEN reopenParent(s, parentName) ELSE s
          IN IF s1.pending[parentName] # 0
             THEN chainOnPendingParent(s1, parentName, propertyName, name)
             ELSE IF s1.registrations[parentName] # NoReg
             THEN [s1 EXCEPT !.registrations[parentName].children =
                                Append(@, name)]
             ELSE s1

(***************************************************************************)
(* _register and _replace, on a registration made by register.             *)
(***************************************************************************)
\* The value handed to value(): an object made for this call, or one of the
\* falsy values "", null and undefined.
PayloadValue(payload, rid) ==
  CASE payload = "obj" -> Obj(rid, NoName, 0)
    [] payload = "empty" -> EmptyString
    [] payload = "null" -> Null
    [] OTHER -> Undefined

NewRegistration(name, rid, creator, dependencies) ==
  [name |-> name, rid |-> rid, kind |-> creator.kind, behav |-> creator.behav,
   payload |-> IF creator.kind = "value"
               THEN PayloadValue(creator.payload, rid) ELSE Undefined,
   dependencies |-> dependencies, children |-> <<>>, setter |-> "default"]

\* collection(name, getter, setter): the registration carries the setter
\* (lines 17, 256-257); "async" is an asynchronous setter that stores the
\* value when its future resolves, "asyncReject" one whose future rejects.
NewCollection(name, rid, setter, creator, dependencies) ==
  [NewRegistration(name, rid, creator, dependencies) EXCEPT !.setter = setter]

\* Line 106: the name is in none of the three stores.
canRegister(s, name) ==
  /\ s.registrations[name] = NoReg
  /\ ~s.beans[name]
  /\ s.pending[name] = 0

\* A variant that queues the properties registered before their parent.
doRegisterAdopting(s, registration) ==
  LET early == {c \in AllNames :
                  /\ s.registrations[c] # NoReg /\ HasParent(c)
                  /\ identifyParentAndProperty(c)[1] = registration.name}
      adopted == IF early = {} THEN <<>> ELSE <<CHOOSE c \in early : TRUE>>
  IN maybeRegisterInParentBean(
       [s EXCEPT !.registrations[registration.name] =
                    [registration EXCEPT !.children = adopted]],
       registration.name)

doRegister(s, registration) ==
  maybeRegisterInParentBean(
    [s EXCEPT !.registrations[registration.name] = registration],
    registration.name)

\* Lines 80-86: only a registered, not yet started bean can be replaced.
canReplace(s, name) ==
  /\ ~s.beans[name]
  /\ s.pending[name] = 0
  /\ s.registrations[name] # NoReg

\* Lines 88-95: the registration object is renamed in place and stored
\* under the retained name too, then linked into its parent.
retainRegistration(s, name, retainedName) ==
  LET retainedRegistration ==
        [s.registrations[name] EXCEPT !.name = retainedName]
  IN maybeRegisterInParentBean(
       [s EXCEPT !.registrations[name] = retainedRegistration,
                 !.registrations[retainedName] = retainedRegistration],
       retainedName)

\* A variant that hands the queued children to the new registration.
doReplaceKeeping(s, registration, retainedName) ==
  LET s1 == IF retainedName # NoName
            THEN retainRegistration(s, registration.name, retainedName)
            ELSE s
  IN [s1 EXCEPT !.registrations[registration.name] =
        [registration EXCEPT
           !.children = s.registrations[registration.name].children]]

\* A variant in which a replacement that retains the original leaves it
\* under the replaced name as well.
doReplaceSharing(s, registration, retainedName) ==
  IF retainedName # NoName
  THEN retainRegistration(s, registration.name, retainedName)
  ELSE [s EXCEPT !.registrations[registration.name] = registration]

doReplace(s, registration, retainedName) ==
  LET s1 == IF retainedName # NoName
            THEN retainRegistration(s, registration.name, retainedName)
            ELSE s
  IN [s1 EXCEPT !.registrations[registration.name] = registration]

(***************************************************************************)
(* The end of one construction.  The promise of _createPromise settles     *)
(* and, on success, the continuation of lines 184-189 (the first reaction  *)
(* of that promise) stores the outcome and clears the pending entry,       *)
(* whatever promise the pending store holds by then.  On a throw that      *)
(* continuation never runs: the rejected promise stays in the pending      *)
(* store.                                                                  *)
(***************************************************************************)
finish(s, n) ==
  [s EXCEPT !.chain[n][s.task[n].link].st = "ok",
            !.beans[n] = TRUE,
            !.pending[n] = 0,
            !.task[n].pc = "done"]

\* A variant that forgets a failure: the registration is put back.
failTaskRetrying(s, n, e) ==
  [s EXCEPT !.chain[n][s.task[n].link].st = "rej",
            !.chain[n][s.task[n].link].err = e,
            !.pending[n] = 0,
            !.registrations[n] = s.task[n].registration,
            !.task[n].pc = "failed"]

failTask(s, n, e) ==
  [s EXCEPT !.chain[n][s.task[n].link].st = "rej",
            !.chain[n][s.task[n].link].err = e,
            !.task[n].pc = "failed"]

RECURSIVE getChildren(_, _, _)
\* Line 261-262: this.get(childName) for every queued child, in order.
getChildren(s, children, acc) ==
  IF children = <<>> THEN [s |-> s, kids |-> acc]
  ELSE LET r == resolveBeanNamed(s, Head(children), {})
       IN getChildren(r.s, Tail(children),
            Append(acc, [name |-> Head(children), h |-> r.h, done |-> FALSE]))

\* A variant that looks up the registered properties of n when n is created.
createdScanning(s, n, outcome) ==
  LET s1 == [s EXCEPT !.outc[n] = outcome]
      found == {c \in AllNames :
                  /\ s.registrations[c] # NoReg /\ HasParent(c)
                  /\ identifyParentAndProperty(c)[1] = n}
      children == IF found = {} THEN s.task[n].registration.children
                  ELSE <<CHOOSE c \in found : TRUE>>
  IN IF Truthy(outcome.bean) /\ outcome.error = NoErr /\ children # <<>>
     THEN LET r == getChildren(s1, children, <<>>)
          IN [r.s EXCEPT !.task[n].pc = "children", !.task[n].kids = r.kids]
     ELSE finish(s1, n)

\* A variant that does not wait for the queued children.
createdDropping(s, n, outcome) ==
  finish([s EXCEPT !.outc[n] = outcome], n)

\* Lines 257-273, once _createBeanGivenDependencies returned `outcome`.
created(s, n, outcome) ==
  LET s1 == [s EXCEPT !.outc[n] = outcome]
      children == s.task[n].registration.children
  IN IF Truthy(outcome.bean) /\ outcome.error = NoErr /\ children # <<>>
     THEN LET r == getChildren(s1, children, <<>>)
          IN [r.s EXCEPT !.task[n].pc = "children", !.task[n].kids = r.kids]
     ELSE finish(s1, n)

(***************************************************************************)
(* The calls from outside: register, get, and the injected functions.      *)
(***************************************************************************)
ValueOf(payload) == [kind |-> "value", behav |-> "ok", payload |-> payload]
FactoryOf(behav) == [kind |-> "factory", behav |-> behav, payload |-> "obj"]
PromiseOf(behav) == [kind |-> "promise", behav |-> behav, payload |-> "obj"]

\* The name is in one of the three stores.
InStore(s, name) ==
  /\ name \in AllNames
  /\ \/ s.registrations[name] # NoReg
     \/ s.pending[name] # 0
     \/ s.beans[name]

\* The store that answers for the name, in the order _resolveBeanNamed asks.
StateOf(s, name) ==
  IF name \notin AllNames THEN "unregistered"
  ELSE IF s.beans[name] THEN "resolved"
  ELSE IF s.pending[name] # 0 THEN "pending"
  ELSE IF s.registrations[name] # NoReg THEN "registered"
  ELSE "unregistered"

\* register, lines 25-62: the creator is a creator, only callables take
\* dependencies, every dependency is a name or an injector.
validRegistration(creator, dependencies) ==
  /\ creator.kind \in {"value", "promise", "factory"}
  /\ creator.kind \in {"value", "promise"} => dependencies = <<>>
  /\ \A i \in 1..Len(dependencies) :
       dependencies[i].inj \in {"bean", "promise", "promiser", "seeker"}

register(name, creator, dependencies) ==
  /\ Len(regLog) < MaxRegs
  /\ validRegistration(creator, dependencies)
  /\ canRegister(Cur, name)
  /\ Commit(doRegister(Cur,
       NewRegistration(name, Len(regLog) + 1, creator, dependencies)))
  /\ regLog' = Append(regLog,
       [op |-> "register", name |-> name, retained |-> NoName,
        rid |-> Len(regLog) + 1, oldRid |-> 0, creator |-> creator,
        dependencies |-> dependencies,
        orphan |-> HasParent(name)
                   /\ ~InStore(Cur, identifyParentAndProperty(name)[1]),
        fresh |-> TRUE,
        state |-> StateOf(Cur, name),
        parent |-> StateOf(Cur, identifyParentAndProperty(name)[1])])
  /\ UNCHANGED <<setting, heap, gets, creatorCalls, seeks, thrown>>

\* register(collection(name, getter, setter), creator, ...dependencies).
registerCollection(name, setter, creator, dependencies) ==
  /\ Len(regLog) < MaxRegs
  /\ validRegistration(creator, dependencies)
  /\ canRegister(Cur, name)
  /\ Commit(doRegister(Cur,
       NewCollection(name, Len(regLog) + 1, setter, creator, dependencies)))
  /\ regLog' = Append(regLog,
       [op |-> "register", name |-> name, retained |-> NoName,
        rid |-> Len(regLog) + 1, oldRid |-> 0, creator |-> creator,
        dependencies |-> dependencies,
        orphan |-> HasParent(name)
                   /\ ~InStore(Cur, identifyParentAndProperty(name)[1]),
        fresh |-> TRUE,
        state |-> StateOf(Cur, name),
        parent |-> StateOf(Cur, identifyParentAndProperty(name)[1])])
  /\ UNCHANGED <<setting, heap, gets, creatorCalls, seeks, thrown>>

replace(name, retainedName, creator, dependencies) ==
  /\ Len(regLog) < MaxRegs
  /\ validRegistration(creator, dependencies)
  /\ canReplace(Cur, name)
  /\ Commit(doReplace(Cur,
       NewRegistration(name, Len(regLog) + 1, creator, dependencies),
       retainedName))
  /\ regLog' = Append(regLog,
       [op |-> "replace", name |-> name, retained |-> retainedName,
        rid |-> Len(regLog) + 1, oldRid |-> registrations[name].rid,
        creator |-> creator, dependencies |-> dependencies, orphan |-> FALSE,
        fresh |-> retainedName = NoName \/ ~InStore(Cur, retainedName),
        state |-> StateOf(Cur, name),
        parent |-> StateOf(Cur, identifyParentAndProperty(name)[1])])
  /\ UNCHANGED <<setting, heap, gets, creatorCalls, seeks, thrown>>

(***************************************************************************)
(* The calls of register that throw.  An argument is a config object of    *)
(* lines 414-562 or anything else ("other"); a string specifier is a       *)
(* collection (line 17), a string creator an alias (line 31), a string     *)
(* dependency a bean name.  promise(future) is the creator "promise",      *)
(* promise(name) the injector "promise".                                   *)
(***************************************************************************)
\* BeanCollection and BeanReplacement set specifier.
specifierFlag(specifier) ==
  specifier.kind \in {"string", "collection", "replacement"}

\* BeanValue, BeanPromise of a thenable, BeanConstructor, BeanFactory set
\* creator.
creatorFlag(creator) ==
  creator.kind \in {"value", "promise", "constructor", "factory"}

\* BeanValue, BeanPromise of a name, BeanBound, BeanPromiser, BeanSeeker set
\* injector.
injectorFlag(dependency) ==
  dependency.inj \in {"value", "promise", "bound", "promiser", "seeker"}

\* Lines 20-62, in the order of the code: what register throws before it
\* looks at a store.
argumentError(specifier, creator, dependencies) ==
  IF ~specifierFlag(specifier) THEN BeanError("specifier")
  ELSE IF creator.kind # "alias" /\ ~creatorFlag(creator)
  THEN BeanError("creator")
  ELSE IF creator.kind = "alias" /\ dependencies # <<>>
  THEN BeanError("alias with dependencies")
  ELSE IF creator.kind = "value" /\ dependencies # <<>>
  THEN BeanError("value with dependencies")
  ELSE IF creator.kind = "promise" /\ dependencies # <<>>
  THEN BeanError("promise with dependencies")
  ELSE IF \E i \in 1..Len(dependencies) :
            dependencies[i].inj # "bean" /\ ~injectorFlag(dependencies[i])
  THEN BeanError("dependency")
  ELSE NoErr

\* A variant of _replace that retains the old registration before it looks
\* whether the bean can be replaced.
replaceThrowRetaining(s, name, retainedName) ==
  IF ~canReplace(s, name)
  THEN [s |-> IF retainedName # NoName
              THEN retainRegistration(s, name, retainedName) ELSE s,
        err |-> IF s.beans[name] \/ s.pending[name] # 0
                THEN BeanError("created") ELSE BeanError("missing")]
  ELSE [s |-> s, err |-> NoErr]

\* _replace, lines 80-86: the throws come before any write.
replaceThrow(s, name, retainedName) ==
  IF s.beans[name] \/ s.pending[name] # 0
  THEN [s |-> s, err |-> BeanError("created")]
  ELSE IF s.registrations[name] = NoReg
  THEN [s |-> s, err |-> BeanError("missing")]
  ELSE [s |-> s, err |-> NoErr]

\* A variant of _register that stores the registration before it looks
\* whether the name is taken.
registerThrowStoring(s, registration) ==
  IF ~canRegister(s, registration.name)
  THEN [s |-> [s EXCEPT !.registrations[registration.name] = registration],
        err |-> BeanError("registered")]
  ELSE [s |-> s, err |-> NoErr]

\* _register, line 106-108.
registerThrow(s, registration) ==
  IF ~canRegister(s, registration.name)
  THEN [s |-> s, err |-> BeanError("registered")]
  ELSE [s |-> s, err |-> NoErr]

\* A variant of register that takes whatever it is given.
registerOutcomeLenient(s, rid, specifier, creator, dependencies) ==
  IF ~specifierFlag(specifier) THEN [s |-> s, err |-> BeanError("specifier")]
  ELSE IF specifier.kind = "replacement"
  THEN replaceThrow(s, specifier.name, specifier.retained)
  ELSE IF canRegister(s, specifier.name)
  THEN [s |-> [s EXCEPT !.registrations[specifier.name] =
                 NewRegistration(specifier.name, rid, creator, dependencies)],
        err |-> IF argumentError(specifier, creator, dependencies) = NoErr
                THEN NoErr ELSE OpaqueError("late")]
  ELSE [s |-> s, err |-> BeanError("registered")]

\* register, lines 15-69, as far as a throw: the container it leaves and
\* the error, NoErr when it goes on to write.
registerOutcome(s, rid, specifier, creator, dependencies) ==
  IF argumentError(specifier, creator, dependencies) # NoErr
  THEN [s |-> s, err |-> argumentError(specifier, creator, dependencies)]
  ELSE IF specifier.kind = "replacement"
  THEN replaceThrow(s, specifier.name, specifier.retained)
  ELSE registerThrow(s, NewRegistration(specifier.name, rid, creator,
                                        dependencies))

\* A call of register that throws.  The record keeps the arguments, the
\* store that answered for the name and the state of its construction when
\* the call was made, and whether the call left the container as it was.
registerThrows(specifier, creator, dependencies) ==
  /\ LET r == registerOutcome(Cur, Len(regLog) + 1, specifier, creator,
                              dependencies)
     IN /\ r.err # NoErr
        /\ Commit(r.s)
        /\ thrown' = [op |-> "register", specifier |-> specifier,
                      creator |-> creator, dependencies |-> dependencies,
                      err |-> r.err,
                      state |-> StateOf(Cur, specifier.name),
                      pc |-> IF specifier.name \in AllNames
                             THEN task[specifier.name].pc ELSE "none",
                      unchanged |-> r.s = Cur]
  /\ UNCHANGED <<setting, heap, gets, creatorCalls, regLog, seeks>>

RECURSIVE PathKnown(_, _)
\* The name or one of the parents of its property path is in a store.
PathKnown(s, name) ==
  \/ InStore(s, name)
  \/ HasParent(name) /\ PathKnown(s, identifyParentAndProperty(name)[1])

\* A continuation of the container is queued as a microtask: the
\* dependencies of a creation have settled, a child that a creation or a
\* pendingWithProperty waits for has, or the promise a pendingWithProperty
\* is chained on has.  A caller that is not itself a microtask runs only
\* when this is false.
MicrotaskReady(s, hp) ==
  \/ \E n \in AllNames :
       /\ s.task[n].pc = "deps"
       /\ LET direct == {i \in 1..Len(s.task[n].deps) :
                          s.task[n].deps[i].inj = "bean"}
          IN \/ \E i \in direct : Settle(s, hp, s.task[n].deps[i].h).st = "rej"
             \/ \A i \in direct : Settle(s, hp, s.task[n].deps[i].h).st = "ok"
  \/ \E n \in AllNames :
       /\ s.task[n].pc = "children"
       /\ \E i \in 1..Len(s.task[n].kids) :
            /\ ~s.task[n].kids[i].done
            /\ GetResult(s, hp, s.task[n].kids[i].h).st # "wait"
  \/ \E n \in AllNames : \E k \in 1..Len(s.chain[n]) :
       \/ /\ s.chain[n][k].t = "withProperty" /\ s.chain[n][k].st = "wait"
          /\ s.chain[n][s.chain[n][k].prev].st \in {"ok", "rej"}
       \/ /\ s.chain[n][k].st = "child"
          /\ GetResult(s, hp, s.chain[n][k].child).st # "wait"

\* A call's record: what was asked, the handle, and once it settled the
\* result.  What held when the call was made: known (the name was in a
\* store), path (it or a parent of its path was), pc (the state of its
\* construction), regs (the register calls made so far), quiet (no
\* microtask of the container was queued), failed (the names whose creation
\* had thrown), afterFail and afterOk (an earlier get of the name had
\* failed / succeeded).
GetRecord(via, name, h) ==
  [via |-> via, name |-> name, h |-> h, st |-> "wait", val |-> Undefined,
   err |-> NoErr, known |-> InStore(Cur, name), path |-> PathKnown(Cur, name),
   pc |-> IF name \in AllNames THEN task[name].pc ELSE "none",
   regs |-> Len(regLog),
   quiet |-> ~MicrotaskReady(Cur, heap),
   failed |-> {n \in AllNames : task[n].pc = "failed"},
   afterFail |-> \E j \in 1..Len(gets) :
                    gets[j].name = name /\ gets[j].st = "fail"
                    /\ gets[j].via = "get" /\ gets[j].known,
   afterOk |-> \E j \in 1..Len(gets) :
                  gets[j].name = name /\ gets[j].st = "ok"
                  /\ gets[j].via = "get" /\ gets[j].known]

\* A variant in which the get of a property starts its parent first.
getThroughParent(name) ==
  /\ LET parentName == identifyParentAndProperty(name)[1]
         s0 == IF HasParent(name) /\ parentName \in AllNames
               THEN resolveBeanNamed(Cur, parentName, {}).s
               ELSE Cur
         r == resolveBeanNamed(s0, name, {})
     IN /\ Commit(r.s)
        /\ gets' = Append(gets, GetRecord("get", name, r.h))
  /\ UNCHANGED <<setting, heap, creatorCalls, regLog, seeks, thrown>>

\* Container#get, line 72 up to the await.
get(name) ==
  /\ LET r == resolveBeanNamed(Cur, name, {})
     IN /\ Commit(r.s)
        /\ gets' = Append(gets, GetRecord("get", name, r.h))
  /\ UNCHANGED <<setting, heap, creatorCalls, regLog, seeks, thrown>>

\* A variant that keeps what a property read yielded as the bean of that
\* name.
getReturnMemoizing(i) ==
  /\ gets[i].st = "wait"
  /\ LET r == IF gets[i].via = "get" THEN GetResult(Cur, heap, gets[i].h)
              ELSE Settle(Cur, heap, gets[i].h)
         name == gets[i].name
         memo == /\ gets[i].h.t = "prop" /\ r.st = "ok"
                 /\ name \in AllNames /\ ~InStore(Cur, name)
     IN /\ r.st # "wait"
        /\ gets' = [gets EXCEPT ![i].st = IF r.st = "ok" THEN "ok" ELSE "fail",
                                ![i].val = r.bean,
                                ![i].err = IF r.st = "ok" THEN NoErr ELSE r.error]
        /\ beans' = IF memo THEN [beans EXCEPT ![name] = TRUE] ELSE beans
        /\ outc' = IF memo
                   THEN [outc EXCEPT ![name] = [bean |-> r.bean, error |-> NoErr]]
                   ELSE outc
  /\ UNCHANGED <<setting, registrations, pending, chain, task, heap,
                 creatorCalls, regLog, seeks, thrown>>

\* Lines 73-74 (get), or `.then(bean => bean.bean)` of a promiser's getter.
getReturn(i) ==
  /\ gets[i].st = "wait"
  /\ LET r == IF gets[i].via = "get" THEN GetResult(Cur, heap, gets[i].h)
              ELSE Settle(Cur, heap, gets[i].h)
     IN /\ r.st # "wait"
        /\ gets' = [gets EXCEPT ![i].st = IF r.st = "ok" THEN "ok" ELSE "fail",
                                ![i].val = r.bean,
                                ![i].err = IF r.st = "ok" THEN NoErr ELSE r.error]
  /\ UNCHANGED <<setting, registrations, pending, beans, outc, chain, task, heap,
                 creatorCalls, regLog, seeks, thrown>>

\* The creator of n was invoked with its injected arguments.
Invoked(n) == task[n].args # <<>> \/
              (task[n].pc \in {"creating", "children", "done"}
               /\ task[n].registration.kind = "factory")

\* Lines 318-322: the function a promiser() injected is called.
callPromiser(n, i) ==
  /\ Invoked(n)
  /\ i \in 1..Len(task[n].deps)
  /\ task[n].deps[i].inj = "promiser"
  /\ LET r == resolveBeanNamed(Cur, task[n].deps[i].name, {})
     IN /\ Commit(r.s)
        /\ gets' = Append(gets, GetRecord("promiser", task[n].deps[i].name, r.h))
  /\ UNCHANGED <<setting, heap, creatorCalls, regLog, seeks, thrown>>

\* Lines 324-329: the function a seeker() injected is called.
seekerOf(s, name) == IF s.beans[name] THEN s.outc[name].bean ELSE Undefined

\* A variant in which the injected function resolves its target.
seekResolving(n, i) ==
  /\ Invoked(n)
  /\ i \in 1..Len(task[n].deps)
  /\ task[n].deps[i].inj = "seeker"
  /\ LET name == task[n].deps[i].name
         r == resolveBeanNamed(Cur, name, {})
     IN /\ Commit(r.s)
        /\ seeks' = [name |-> name, val |-> seekerOf(Cur, name),
                     created |-> task[name].pc = "done",
                     bean |-> outc[name].bean]
  /\ UNCHANGED <<setting, heap, gets, creatorCalls, regLog, thrown>>

seek(n, i) ==
  /\ Invoked(n)
  /\ i \in 1..Len(task[n].deps)
  /\ task[n].deps[i].inj = "seeker"
  /\ LET name == task[n].deps[i].name
     IN seeks' = [name |-> name, val |-> seekerOf(Cur, name),
                  created |-> task[name].pc = "done",
                  bean |-> outc[name].bean]
  /\ UNCHANGED <<setting, registrations, pending, beans, outc, chain, task, heap, gets,
                 creatorCalls, regLog, thrown>>

(***************************************************************************)
(* The continuations of one construction.                                  *)
(***************************************************************************)
\* What the creator receives for dependency d.
Injected(s, hp, d) ==
  IF d.inj = "bean" THEN Settle(s, hp, d.h).bean
  ELSE [k |-> d.inj, id |-> <<0, d.name, 0>>]

\* _createBeanGivenDependencies, lines 332-360, up to the call of a callable.
createBeanGivenDependencies(n) ==
  LET t == task[n]
      registration == t.registration
      failed == {i \in 1..Len(t.deps) :
                   t.deps[i].inj = "bean"
                   /\ Settle(Cur, heap, t.deps[i].h).error # NoErr}
  IN CASE registration.kind = "value" ->
            /\ Commit(IF Truthy(registration.payload)
                      THEN created(Cur, n, [bean |-> registration.payload,
                                            error |-> NoErr])
                      ELSE failTask(Cur, n, WhileCreating(registration.name,
                                                 OpaqueError("typeerror"))))
            /\ UNCHANGED creatorCalls
       [] registration.kind = "promise" ->
            /\ Commit([Cur EXCEPT !.task[n].pc = "creating"])
            /\ UNCHANGED creatorCalls
       [] OTHER ->
            IF failed # {}
            THEN /\ Commit(failTask(Cur, n, WhileCreating(registration.name,
                        Settle(Cur, heap, t.deps[CHOOSE i \in failed :
                             \A j \in failed : i <= j].h).error)))
                 /\ UNCHANGED creatorCalls
            ELSE /\ Commit([Cur EXCEPT
                       !.task[n].pc = "creating",
                       !.task[n].args = [i \in 1..Len(t.deps) |->
                                           Injected(Cur, heap, t.deps[i])]])
                 /\ creatorCalls' = [creatorCalls EXCEPT ![n] = @ + 1]

\* A variant that goes on as soon as one direct dependency is resolved.
afterDependenciesEarly(n) ==
  /\ task[n].pc = "deps"
  /\ LET t == task[n]
         direct == {i \in 1..Len(t.deps) : t.deps[i].inj = "bean"}
         rejected == {i \in direct : Settle(Cur, heap, t.deps[i].h).st = "rej"}
     IN \/ \E i \in rejected :
             /\ Commit(failTask(Cur, n, WhileCreating(t.registration.name,
                                   Settle(Cur, heap, t.deps[i].h).error)))
             /\ UNCHANGED creatorCalls
        \/ /\ \A i \in direct : Settle(Cur, heap, t.deps[i].h).st # "rej"
           /\ direct = {} \/ \E i \in direct : Settle(Cur, heap, t.deps[i].h).st = "ok"
           /\ createBeanGivenDependencies(n)
  /\ UNCHANGED <<setting, heap, gets, regLog, seeks, thrown>>

\* Lines 250-255: Promise.all over the dependencies rejects with a rejected
\* dependency, else the bean is created once all of them are resolved.
afterDependencies(n) ==
  /\ task[n].pc = "deps"
  /\ LET t == task[n]
         direct == {i \in 1..Len(t.deps) : t.deps[i].inj = "bean"}
         rejected == {i \in direct : Settle(Cur, heap, t.deps[i].h).st = "rej"}
     IN \/ \E i \in rejected :
             /\ Commit(failTask(Cur, n, WhileCreating(t.registration.name,
                                   Settle(Cur, heap, t.deps[i].h).error)))
             /\ UNCHANGED creatorCalls
        \/ /\ \A i \in direct : Settle(Cur, heap, t.deps[i].h).st = "ok"
           /\ createBeanGivenDependencies(n)
  /\ UNCHANGED <<setting, heap, gets, regLog, seeks, thrown>>

\* The callable returns or throws; a promise() creator's promise settles
\* (line 51 turns a rejection into an outcome that holds the error).
creatorReturns(n) ==
  /\ task[n].pc = "creating"
  /\ LET registration == task[n].registration
     IN Commit(
          CASE registration.kind = "promise" ->
                 created(Cur, n,
                   IF registration.behav = "ok"
                   THEN [bean |-> Obj(registration.rid, NoName, 0), error |-> NoErr]
                   ELSE [bean |-> Undefined, error |-> OpaqueError("promise")])
            [] registration.behav = "ok" ->
                 created(Cur, n,
                   [bean |-> Obj(registration.rid, n, creatorCalls[n]),
                    error |-> NoErr])
            [] OTHER ->
                 failTask(Cur, n, WhileCreating(registration.name,
                                                OpaqueError("creator"))))
  /\ UNCHANGED <<setting, heap, gets, creatorCalls, regLog, seeks, thrown>>

\* _setChild, lines 158-161: the setter is called on the parent's bean and
\* what it returns is dropped.  The default setter assigns at once; the
\* call of an asynchronous custom setter is recorded with its future.
setChild(n, propertyName, childName, value) ==
  IF task[n].registration.setter = "default"
  THEN /\ heap' = defaultSetter(heap, outc[n].bean, propertyName, value)
       /\ UNCHANGED setting
  ELSE /\ UNCHANGED heap
       /\ setting' = setting \cup
            {[obj |-> outc[n].bean.id, prop |-> propertyName, val |-> value,
              name |-> childName, behav |-> task[n].registration.setter,
              st |-> "wait"]}

\* Lines 262-269: one queued child settled; Promise.all resolves with the last.
childSettles(n, i) ==
  /\ task[n].pc = "children"
  /\ i \in 1..Len(task[n].kids)
  /\ ~task[n].kids[i].done
  /\ LET kid == task[n].kids[i]
         r == GetResult(Cur, heap, kid.h)
         propertyName == identifyParentAndProperty(kid.name)[2]
         s1 == [Cur EXCEPT !.task[n].kids[i].done = TRUE,
                           !.outc[n].error =
                              IF r.st = "rej" /\ @ = NoErr THEN r.error ELSE @]
         last == \A j \in 1..Len(task[n].kids) : j = i \/ task[n].kids[j].done
     IN /\ r.st # "wait"
        /\ IF r.st = "ok" /\ outc[n].error = NoErr
           THEN setChild(n, propertyName, kid.name, r.bean)
           ELSE UNCHANGED <<heap, setting>>
        /\ Commit(IF last THEN finish(s1, n) ELSE s1)
  /\ UNCHANGED <<gets, creatorCalls, regLog, seeks, thrown>>

(***************************************************************************)
(* pendingWithProperty, lines 136-147.                                     *)
(***************************************************************************)
\* The parent's earlier pending promise settled.
parentSettles(n, k) ==
  /\ k \in 1..Len(chain[n])
  /\ chain[n][k].t = "withProperty"
  /\ chain[n][k].st = "wait"
  /\ LET prev == chain[n][chain[n][k].prev]
     IN /\ prev.st \in {"ok", "rej"}
        /\ chain' = [chain EXCEPT
             ![n][k].st = IF prev.st = "rej" THEN "rej"
                          ELSE IF Truthy(outc[n].bean) /\ outc[n].error = NoErr
                          THEN "child" ELSE "ok",
             ![n][k].err = prev.err]
  /\ UNCHANGED <<setting, registrations, pending, beans, outc, task, heap, gets,
                 creatorCalls, regLog, seeks, thrown>>

\* A variant that drops the error of the child.
propertySettlesIgnoring(n, k) ==
  /\ k \in 1..Len(chain[n])
  /\ chain[n][k].st = "child"
  /\ LET r == GetResult(Cur, heap, chain[n][k].child)
     IN /\ r.st # "wait"
        /\ heap' = IF r.st = "ok"
                   THEN defaultSetter(heap, outc[n].bean,
                                      chain[n][k].propertyName, r.bean)
                   ELSE heap
        /\ chain' = [chain EXCEPT ![n][k].st = "ok"]
  /\ UNCHANGED <<setting, registrations, pending, beans, outc, task, gets,
                 creatorCalls, regLog, seeks, thrown>>

\* The child settled: it is set on the parent, or its error marks the parent.
propertySettles(n, k) ==
  /\ k \in 1..Len(chain[n])
  /\ chain[n][k].st = "child"
  /\ LET r == GetResult(Cur, heap, chain[n][k].child)
     IN /\ r.st # "wait"
        /\ IF r.st = "ok"
           THEN setChild(n, chain[n][k].propertyName, chain[n][k].name, r.bean)
           ELSE UNCHANGED <<heap, setting>>
        /\ outc' = IF r.st = "rej" THEN [outc EXCEPT ![n].error = r.error]
                   ELSE outc
        /\ chain' = [chain EXCEPT ![n][k].st = "ok"]
  /\ UNCHANGED <<registrations, pending, beans, task, gets, creatorCalls,
                 regLog, seeks, thrown>>

\* The future an asynchronous setter returned settles; nothing in the
\* container waits for it (line 160 neither awaits nor returns it).
setterSettles(c) ==
  /\ c \in setting
  /\ c.st = "wait"
  /\ heap' = IF c.behav = "async"
             THEN defaultSetter(heap, [k |-> "obj", id |-> c.obj], c.prop, c.val)
             ELSE heap
  /\ setting' = (setting \ {c}) \cup
       {[c EXCEPT !.st = IF c.behav = "async" THEN "ok" ELSE "rej"]}
  /\ UNCHANGED <<registrations, pending, beans, outc, chain, task, gets,
                 creatorCalls, regLog, seeks, thrown>>

(***************************************************************************)
(* The container after construction (lines 9-13), nothing called yet.      *)
(***************************************************************************)
NoSeek == [name |-> NoName, val |-> Undefined, created |-> FALSE,
           bean |-> Undefined]

NoThrow == [op |-> "none"]

Init ==
  /\ registrations = [n \in AllNames |-> NoReg]
  /\ pending = [n \in AllNames |-> 0]
  /\ beans = [n \in AllNames |-> FALSE]
  /\ outc = [n \in AllNames |-> NoOutcome]
  /\ chain = [n \in AllNames |-> <<>>]
  /\ task = [n \in AllNames |-> NoTask]
  /\ heap = {}
  /\ gets = <<>>
  /\ creatorCalls = [n \in AllNames |-> 0]
  /\ regLog = <<>>
  /\ seeks = NoSeek
  /\ thrown = NoThrow
  /\ setting = {}

\* The registrations tried: a plain parent a, its property a.b, and b with
\* one dependency on a.
RegMenu ==
  {[name |-> NA, creator |-> c, deps |-> <<>>] :
      c \in {ValueOf("obj"), FactoryOf("ok"), FactoryOf("throw"),
             PromiseOf("throw")}}
  \cup {[name |-> NAB, creator |-> c, deps |-> <<>>] :
      c \in {ValueOf("obj"), FactoryOf("throw")}}
  \cup {[name |-> NB, creator |-> FactoryOf("ok"), deps |-> d] :
      d \in {<<>>, <<Dep("bean", NA)>>, <<Dep("seeker", NA)>>}}

ReplMenu ==
  {[name |-> NA, retained |-> r, creator |-> FactoryOf("ok"), deps |-> d] :
      r \in {NoName, NB}, d \in {<<Dep("bean", NB)>>}}

Next ==
  \/ \E m \in RegMenu : register(m.name, m.creator, m.deps)
  \/ \E m \in ReplMenu : replace(m.name, m.retained, m.creator, m.deps)
  \/ \E n \in Names : Len(gets) < MaxGets /\ get(n)
  \/ \E i \in 1..Len(gets) : getReturn(i)
  \/ \E n \in Names : afterDependencies(n)
  \/ \E n \in Names : creatorReturns(n)
  \/ \E n \in Names, i \in 1..MaxRegs : childSettles(n, i)
  \/ \E n \in Names, k \in 1..(2 * MaxRegs) : parentSettles(n, k)
  \/ \E n \in Names, k \in 1..(2 * MaxRegs) : propertySettles(n, k)
  \/ \E n \in Names, i \in 1..1 : seek(n, i)

Spec == Init /\ [][Next]_vars

(***************************************************************************)
(* The container with factories that depend directly on one another:       *)
(* registrations that can close cycles of length one, two and three, and   *)
(* one more get so that each participant of a cycle can be got.            *)
(***************************************************************************)
CycleMenu ==
  {[name |-> NA, creator |-> FactoryOf("ok"), deps |-> <<Dep("bean", d)>>] :
      d \in {NA, NB}}
  \cup {[name |-> NB, creator |-> FactoryOf("ok"), deps |-> <<Dep("bean", d)>>] :
      d \in {NA, NAB}}
  \cup {[name |-> NAB, creator |-> FactoryOf("ok"), deps |-> <<Dep("bean", NA)>>]}

\* Every registration of CycleMenu has a direct dependency, and following
\* them ends in a cycle or at a name that is not registered: no creator is
\* ever called and no property is ever set, so creatorReturns, childSettles
\* and propertySettles are never enabled and are left out.
NextCycle ==
  \/ \E m \in CycleMenu : register(m.name, m.creator, m.deps)
  \/ \E n \in Names : Len(gets) < MaxGets + 1 /\ get(n)
  \/ \E i \in 1..Len(gets) : getReturn(i)
  \/ \E n \in Names : afterDependencies(n)
  \/ \E n \in Names, k \in 1..(2 * MaxRegs) : parentSettles(n, k)

SpecCycle == Init /\ [][NextCycle]_vars

(***************************************************************************)
(* The container with two factories that depend on one another, where the  *)
(* reference from a to b is a promise() or a promiser().  The factories    *)
(* return without waiting for what they were given.  The continuations of  *)
(* the container run as microtasks and the factories return, so one of     *)
(* these steps is taken whenever one stays enabled; get, register and the  *)
(* call of an injected function are up to the caller.                      *)
(***************************************************************************)
LazyMenu ==
  {[name |-> NA, creator |-> FactoryOf("ok"), deps |-> <<Dep(inj, NB)>>] :
      inj \in {"promise", "promiser"}}
  \cup {[name |-> NB, creator |-> FactoryOf("ok"), deps |-> <<Dep(inj, NA)>>] :
      inj \in {"bean", "promise"}}

NextLazy ==
  \/ \E m \in LazyMenu : register(m.name, m.creator, m.deps)
  \/ \E n \in Names : Len(gets) < MaxGets + 1 /\ get(n)
  \/ \E n \in Names : Len(gets) < MaxGets + 1 /\ callPromiser(n, 1)
  \/ \E i \in 1..Len(gets) : getReturn(i)
  \/ \E n \in Names : afterDependencies(n)
  \/ \E n \in Names : creatorReturns(n)

SettlingLazy ==
  \/ \E i \in 1..Len(gets) : getReturn(i)
  \/ \E n \in Names : afterDependencies(n)
  \/ \E n \in Names : creatorReturns(n)

SpecLazy == Init /\ [][NextLazy]_vars /\ WF_vars(SettlingLazy)

(***************************************************************************)
(* The container with calls of register that throw: well-formed calls on   *)
(* names in every store, and malformed ones (a config of the wrong class   *)
(* as specifier, creator or dependency; dependencies for a creator that    *)
(* takes none).                                                            *)
(***************************************************************************)
ConfigOf(kind) == [kind |-> kind, behav |-> "ok", payload |-> "obj"]
Specifier(kind, name, retained) ==
  [kind |-> kind, name |-> name, retained |-> retained]

RejectRegs ==
  {[name |-> NA, creator |-> FactoryOf("ok"), deps |-> <<>>],
   [name |-> NB, creator |-> ValueOf("obj"), deps |-> <<>>]}

RejectRepl ==
  {[name |-> NA, retained |-> r, creator |-> FactoryOf("ok"), deps |-> <<>>] :
      r \in {NoName, NAB}}

\* The calls that can throw: well-formed ones, which throw or not with the
\* store the name is in, and one malformed call of each kind, on a name and
\* as a replacement.
ThrowMenu ==
  {[specifier |-> sp, creator |-> FactoryOf("ok"), deps |-> <<>>] :
      sp \in {Specifier("string", NA, NoName), Specifier("string", NB, NoName),
              Specifier("replacement", NA, NoName),
              Specifier("replacement", NA, NAB)}}
  \cup {[specifier |-> sp, creator |-> ConfigOf(k), deps |-> <<Dep("bean", NB)>>] :
      sp \in {Specifier("string", NA, NoName),
              Specifier("replacement", NA, NAB)},
      k \in {"value", "promise", "alias"}}
  \cup {[specifier |-> sp, creator |-> ConfigOf(k), deps |-> <<>>] :
      sp \in {Specifier("string", NA, NoName),
              Specifier("replacement", NA, NAB)},
      k \in {"promiser", "promise(name)"}}
  \cup {[specifier |-> sp, creator |-> FactoryOf("ok"), deps |-> <<Dep(k, NB)>>] :
      sp \in {Specifier("string", NA, NoName),
              Specifier("replacement", NA, NAB)},
      k \in {"factory", "promise(future)"}}
  \cup {[specifier |-> Specifier("other", NoName, NoName),
         creator |-> FactoryOf("ok"), deps |-> <<>>]}

NextReject ==
  \/ \E m \in RejectRegs : register(m.name, m.creator, m.deps)
  \/ \E m \in RejectRepl : replace(m.name, m.retained, m.creator, m.deps)
  \/ \E m \in ThrowMenu : registerThrows(m.specifier, m.creator, m.deps)
  \/ Len(gets) < MaxGets /\ get(NA)
  \/ \E i \in 1..Len(gets) : getReturn(i)
  \/ \E n \in Names : afterDependencies(n)
  \/ \E n \in Names : creatorReturns(n)

SpecReject == Init /\ [][NextReject]_vars

(***************************************************************************)
(* The container with pre-created beans only: value(v) for an object and   *)
(* for the falsy values "", null and undefined.                            *)
(***************************************************************************)
ValueMenu ==
  {[name |-> n, creator |-> ValueOf(p), deps |-> <<>>] :
      n \in {NA, NB}, p \in {"obj", "empty", "null", "undefined"}}

\* A value() registration has no dependencies and calls nothing: its
\* creation ends in the continuation that follows the (empty) Promise.all.
NextValue ==
  \/ \E m \in ValueMenu : register(m.name, m.creator, m.deps)
  \/ \E n \in Names : Len(gets) < MaxGets + 1 /\ get(n)
  \/ \E i \in 1..Len(gets) : getReturn(i)
  \/ \E n \in Names : afterDependencies(n)

SpecValue == Init /\ [][NextValue]_vars

(***************************************************************************)
(* The container with creations that fail: a factory or a promise that     *)
(* throws, a dependency on a name nobody registers, a dependency that      *)
(* closes a cycle, at the end of chains of dependencies b -> a -> a.b.     *)
(***************************************************************************)
NC == <<"c">>

ErrMenu ==
  {[name |-> NB, creator |-> FactoryOf("ok"), deps |-> <<Dep("bean", NA)>>]}
  \cup {[name |-> NA, creator |-> c, deps |-> <<>>] :
      c \in {FactoryOf("throw"), PromiseOf("throw")}}
  \cup {[name |-> NA, creator |-> FactoryOf("ok"), deps |-> <<Dep("bean", d)>>] :
      d \in {NAB, NC, NB}}
  \cup {[name |-> NAB, creator |-> FactoryOf("throw"), deps |-> <<>>]}
  \cup {[name |-> NAB, creator |-> FactoryOf("ok"), deps |-> <<Dep("bean", d)>>] :
      d \in {NC, NB}}

\* No creation of ErrMenu succeeds, so no child is ever applied to a
\* parent: childSettles and propertySettles are never enabled and are left
\* out.
NextErr ==
  \/ \E m \in ErrMenu : register(m.name, m.creator, m.deps)
  \/ \E n \in Names : Len(gets) < MaxGets /\ get(n)
  \/ \E i \in 1..Len(gets) : getReturn(i)
  \/ \E n \in Names : afterDependencies(n)
  \/ \E n \in Names : creatorReturns(n)
  \/ \E n \in Names, k \in 1..(2 * MaxRegs) : parentSettles(n, k)

SpecErr == Init /\ [][NextErr]_vars

(***************************************************************************)
(* The container with a fixed set of registrations, made before the first  *)
(* get: factories a and b whose dependencies are direct references,        *)
(* promise() and promiser() of one another, and which return without       *)
(* waiting for what they were given.  The continuations of the container   *)
(* run as microtasks and the factories return, so one of these steps is    *)
(* taken whenever one stays enabled; the gets and the calls of an injected *)
(* getter come in any order.                                               *)
(***************************************************************************)
IndepMenu ==
  {[name |-> NA, creator |-> FactoryOf("ok"), deps |-> d] :
      d \in {<<Dep("bean", NB)>>, <<Dep("promiser", NB)>>,
             <<Dep("promise", NB), Dep("bean", NB)>>}}
  \cup {[name |-> NB, creator |-> FactoryOf("ok"), deps |-> d] :
      d \in {<<>>, <<Dep("bean", NA)>>}}
  \cup {[name |-> NB, creator |-> FactoryOf("throw"), deps |-> <<>>]}

NextIndep ==
  \/ \E m \in IndepMenu : gets = <<>> /\ register(m.name, m.creator, m.deps)
  \/ \E n \in {NA, NB} : Len(gets) < MaxGets /\ get(n)
  \/ Len(gets) < MaxGets + 1 /\ callPromiser(NA, 1)
  \/ \E i \in 1..Len(gets) : getReturn(i)
  \/ \E n \in Names : afterDependencies(n)
  \/ \E n \in Names : creatorReturns(n)

SettlingIndep ==
  \/ \E i \in 1..Len(gets) : getReturn(i)
  \/ \E n \in Names : afterDependencies(n)
  \/ \E n \in Names : creatorReturns(n)

SpecIndep == Init /\ [][NextIndep]_vars /\ WF_vars(SettlingIndep)

(***************************************************************************)
(* The container with a bean b that is handed a future of a, by promise()  *)
(* or through the getter of promiser(), where a succeeds, throws, is a     *)
(* rejected promise, or has a property a.b whose factory throws.           *)
(***************************************************************************)
FutureMenu ==
  {[name |-> NA, creator |-> c, deps |-> <<>>] :
      c \in {FactoryOf("ok"), FactoryOf("throw"), PromiseOf("throw")}}
  \cup {[name |-> NAB, creator |-> FactoryOf("throw"), deps |-> <<>>]}
  \cup {[name |-> NB, creator |-> FactoryOf("ok"), deps |-> <<Dep(inj, NA)>>] :
      inj \in {"promise", "promiser"}}

NextFuture ==
  \/ \E m \in FutureMenu : register(m.name, m.creator, m.deps)
  \/ \E n \in {NA, NB} : Len(gets) < MaxGets /\ get(n)
  \/ Len(gets) < MaxGets /\ callPromiser(NB, 1)
  \/ \E i \in 1..Len(gets) : getReturn(i)
  \/ \E n \in Names : afterDependencies(n)
  \/ \E n \in Names : creatorReturns(n)
  \/ \E n \in Names, i \in 1..MaxRegs : childSettles(n, i)
  \/ \E n \in Names, k \in 1..(2 * MaxRegs) : parentSettles(n, k)
  \/ \E n \in Names, k \in 1..(2 * MaxRegs) : propertySettles(n, k)

SpecFuture == Init /\ [][NextFuture]_vars

(***************************************************************************)
(* The container with a parent a and its property a.b, registered in       *)
(* either order and at any moment of the parent's construction.  Both are  *)
(* objects handed over with value() or made by a factory that returns      *)
(* when it pleases; the property's factory may throw.                      *)
(***************************************************************************)
PropMenu ==
  {[name |-> NA, creator |-> c, deps |-> <<>>] :
      c \in {ValueOf("obj"), FactoryOf("ok")}}
  \cup {[name |-> NAB, creator |-> c, deps |-> <<>>] :
      c \in {ValueOf("obj"), FactoryOf("ok"), FactoryOf("throw")}}

NextProp ==
  \/ \E m \in PropMenu : register(m.name, m.creator, m.deps)
  \/ \E n \in Names : Len(gets) < MaxGets + 1 /\ get(n)
  \/ \E i \in 1..Len(gets) : getReturn(i)
  \/ \E n \in Names : afterDependencies(n)
  \/ \E n \in Names : creatorReturns(n)
  \/ \E n \in Names, i \in 1..MaxRegs : childSettles(n, i)
  \/ \E n \in Names, k \in 1..(2 * MaxRegs) : parentSettles(n, k)
  \/ \E n \in Names, k \in 1..(2 * MaxRegs) : propertySettles(n, k)

SpecProp == Init /\ [][NextProp]_vars

(***************************************************************************)
(* The container with a parent a that is replaced, with and without a      *)
(* retained name, and a property a.b registered before or after the        *)
(* replacement.                                                            *)
(***************************************************************************)
ReplRegs ==
  {[name |-> NA, creator |-> c, deps |-> <<>>] :
      c \in {ValueOf("obj"), FactoryOf("ok")}}
  \cup {[name |-> NAB, creator |-> ValueOf("obj"), deps |-> <<>>]}

ReplReplacements ==
  {[name |-> NA, retained |-> r, creator |-> FactoryOf("ok"), deps |-> <<>>] :
      r \in {NoName, NB}}

NextRepl ==
  \/ \E m \in ReplRegs : register(m.name, m.creator, m.deps)
  \/ \E m \in ReplReplacements :
       replace(m.name, m.retained, m.creator, m.deps)
  \/ \E n \in Names : Len(gets) < MaxGets + 1 /\ get(n)
  \/ \E i \in 1..Len(gets) : getReturn(i)
  \/ \E n \in Names : afterDependencies(n)
  \/ \E n \in Names : creatorReturns(n)
  \/ \E n \in Names, i \in 1..MaxRegs : childSettles(n, i)
  \/ \E n \in Names, k \in 1..(2 * MaxRegs) : parentSettles(n, k)
  \/ \E n \in Names, k \in 1..(2 * MaxRegs) : propertySettles(n, k)

SpecRepl == Init /\ [][NextRepl]_vars

(***************************************************************************)
(* The container whose creators all return: a parent a, and a property a.b *)
(* and a bean b that may refer to a.  The continuations of the container   *)
(* run as microtasks and every factory returns, so one of these steps is   *)
(* taken whenever one stays enabled; register and get are up to the        *)
(* caller.                                                                 *)
(***************************************************************************)
LiveMenu ==
  {[name |-> NA, creator |-> FactoryOf("ok"), deps |-> <<>>]}
  \cup {[name |-> n, creator |-> FactoryOf("ok"), deps |-> d] :
          n \in {NAB, NB}, d \in {<<>>, <<Dep("bean", NA)>>}}

NextLive ==
  \/ \E m \in LiveMenu : register(m.name, m.creator, m.deps)
  \/ \E n \in Names : Len(gets) < MaxGets /\ get(n)
  \/ \E i \in 1..Len(gets) : getReturn(i)
  \/ \E n \in Names : afterDependencies(n)
  \/ \E n \in Names : creatorReturns(n)
  \/ \E n \in Names, i \in 1..MaxRegs : childSettles(n, i)
  \/ \E n \in Names, k \in 1..(2 * MaxRegs) : parentSettles(n, k)
  \/ \E n \in Names, k \in 1..(2 * MaxRegs) : propertySettles(n, k)

SettlingLive ==
  \/ \E i \in 1..Len(gets) : getReturn(i)
  \/ \E n \in Names : afterDependencies(n)
  \/ \E n \in Names : creatorReturns(n)
  \/ \E n \in Names, i \in 1..MaxRegs : childSettles(n, i)
  \/ \E n \in Names, k \in 1..(2 * MaxRegs) : parentSettles(n, k)
  \/ \E n \in Names, k \in 1..(2 * MaxRegs) : propertySettles(n, k)

SpecLive == Init /\ [][NextLive]_vars /\ WF_vars(SettlingLive)

(***************************************************************************)
(* The container asked for property paths: a and a.b are registered as     *)
(* beans of their own, in either order, and get is called with dotted,     *)
(* bracketed and nested names, some of which are registered literally.     *)
(***************************************************************************)
NABC == <<"a", ".", "b", ".", "c">>
NAbrC == <<"a", "[", "b", "]", ".", "c">>
NAdot == <<"a", ".">>
PathNames == {NA, NAB, NAbr, NABC, NAbrC, NAdot}

PathMenu ==
  {[name |-> n, creator |-> c, deps |-> <<>>] :
      n \in {NA, NAB}, c \in {ValueOf("obj"), FactoryOf("ok")}}

NextPath ==
  \/ \E m \in PathMenu : register(m.name, m.creator, m.deps)
  \/ \E n \in PathNames : Len(gets) < MaxGets /\ get(n)
  \/ \E i \in 1..Len(gets) : getReturn(i)
  \/ \E n \in Names : afterDependencies(n)
  \/ \E n \in Names : creatorReturns(n)
  \/ \E n \in Names, i \in 1..MaxRegs : childSettles(n, i)
  \/ \E n \in Names, k \in 1..(2 * MaxRegs) : parentSettles(n, k)
  \/ \E n \in Names, k \in 1..(2 * MaxRegs) : propertySettles(n, k)

SpecPath == Init /\ [][NextPath]_vars

(***************************************************************************)
(* The container with a bean b of two dependencies, a and a.b, which are   *)
(* beans of their own that are created, throw, or hold a rejected promise. *)
(***************************************************************************)
DepsMenu ==
  {[name |-> NA, creator |-> c, deps |-> <<>>] :
      c \in {FactoryOf("ok"), FactoryOf("throw"), PromiseOf("throw")}}
  \cup {[name |-> NAB, creator |-> c, deps |-> <<>>] :
      c \in {FactoryOf("ok"), FactoryOf("throw")}}
  \cup {[name |-> NB, creator |-> FactoryOf("ok"), deps |-> d] :
      d \in {<<Dep("bean", NA), Dep("bean", NAB)>>,
             <<Dep("bean", NAB), Dep("promise", NA)>>}}

NextDeps ==
  \/ \E m \in DepsMenu : register(m.name, m.creator, m.deps)
  \/ \E n \in Names : Len(gets) < MaxGets /\ get(n)
  \/ \E i \in 1..Len(gets) : getReturn(i)
  \/ \E n \in Names : afterDependencies(n)
  \/ \E n \in Names : creatorReturns(n)
  \/ \E n \in Names, i \in 1..MaxRegs : childSettles(n, i)
  \/ \E n \in Names, k \in 1..(2 * MaxRegs) : parentSettles(n, k)
  \/ \E n \in Names, k \in 1..(2 * MaxRegs) : propertySettles(n, k)

SpecDeps == Init /\ [][NextDeps]_vars

(***************************************************************************)
(* The container with a parent a and two beans of their own, a.b and a[b], *)
(* that are properties of a and take any time to create.                   *)
(***************************************************************************)
OrderMenu ==
  {[name |-> NA, creator |-> FactoryOf("ok"), deps |-> <<>>]}
  \cup {[name |-> n, creator |-> c, deps |-> <<>>] :
          n \in {NAB, NAbr}, c \in {ValueOf("obj"), FactoryOf("ok")}}

NextOrder ==
  \/ \E m \in OrderMenu : register(m.name, m.creator, m.deps)
  \/ Len(gets) < MaxGets /\ get(NA)
  \/ \E i \in 1..Len(gets) : getReturn(i)
  \/ \E n \in AllNames : afterDependencies(n)
  \/ \E n \in AllNames : creatorReturns(n)
  \/ \E n \in AllNames, i \in 1..MaxRegs : childSettles(n, i)
  \/ \E n \in AllNames, k \in 1..(2 * MaxRegs) : parentSettles(n, k)
  \/ \E n \in AllNames, k \in 1..(2 * MaxRegs) : propertySettles(n, k)

SpecOrder == Init /\ [][NextOrder]_vars

(***************************************************************************)
(* The container with a collection a whose custom setter is asynchronous,  *)
(* and its property a.b.                                                   *)
(***************************************************************************)
SetterMenu ==
  {[name |-> NAB, creator |-> c, deps |-> <<>>] :
      c \in {ValueOf("obj"), FactoryOf("ok")}}

CollectionMenu ==
  {[name |-> NA, setter |-> f, creator |-> c, deps |-> <<>>] :
      f \in {"async", "asyncReject"}, c \in {ValueOf("obj"), FactoryOf("ok")}}

NextSetter ==
  \/ \E m \in SetterMenu : register(m.name, m.creator, m.deps)
  \/ \E m \in CollectionMenu :
       registerCollection(m.name, m.setter, m.creator, m.deps)
  \/ \E n \in Names : Len(gets) < MaxGets + 1 /\ get(n)
  \/ \E i \in 1..Len(gets) : getReturn(i)
  \/ \E n \in Names : afterDependencies(n)
  \/ \E n \in Names : creatorReturns(n)
  \/ \E n \in Names, i \in 1..MaxRegs : childSettles(n, i)
  \/ \E n \in Names, k \in 1..(2 * MaxRegs) : parentSettles(n, k)
  \/ \E n \in Names, k \in 1..(2 * MaxRegs) : propertySettles(n, k)
  \/ \E c \in setting : setterSettles(c)

SpecSetter == Init /\ [][NextSetter]_vars

(***************************************************************************)
(* The container with a property a.b that is registered before or after    *)
(* its parent a and then replaced, with or without a retained name.        *)
(***************************************************************************)
LinkRegs ==
  {[name |-> n, creator |-> c, deps |-> <<>>] :
      n \in {NA, NAB}, c \in {ValueOf("obj"), FactoryOf("ok")}}

LinkReplacements ==
  {[name |-> NAB, retained |-> r, creator |-> FactoryOf("ok"), deps |-> <<>>] :
      r \in {NoName, NB}}

NextLink ==
  \/ \E m \in LinkRegs : register(m.name, m.creator, m.deps)
  \/ \E m \in LinkReplacements :
       replace(m.name, m.retained, m.creator, m.deps)
  \/ \E n \in Names : Len(gets) < MaxGets /\ get(n)
  \/ \E i \in 1..Len(gets) : getReturn(i)
  \/ \E n \in Names : afterDependencies(n)
  \/ \E n \in Names : creatorReturns(n)
  \/ \E n \in Names, i \in 1..MaxRegs : childSettles(n, i)
  \/ \E n \in Names, k \in 1..(2 * MaxRegs) : parentSettles(n, k)
  \/ \E n \in Names, k \in 1..(2 * MaxRegs) : propertySettles(n, k)

SpecLink == Init /\ [][NextLink]_vars

(***************************************************************************)
(* Properties.                                                             *)
(***************************************************************************)
GetIx == 1..Len(gets)
RegIx == 1..Len(regLog)
Done(i) == gets[i].st # "wait"
Range(seq) == {seq[i] : i \in 1..Len(seq)}

\* C1: all successful get calls of a registered bean yield the identical
\* instance, whether made one after the other, concurrently or while the
\* bean's creator runs, and the creator is invoked exactly once.
C1_Singleton ==
  /\ \A n \in Names : creatorCalls[n] <= 1
  /\ \A i, j \in GetIx :
       (/\ gets[i].via = "get" /\ gets[j].via = "get"
        /\ gets[i].name = gets[j].name
        /\ gets[i].known /\ gets[j].known
        /\ gets[i].st = "ok" /\ gets[j].st = "ok")
       => gets[i].val = gets[j].val
  /\ \A i \in GetIx :
       (/\ gets[i].via = "get" /\ gets[i].known /\ gets[i].st = "ok"
        /\ task[gets[i].name].registration.kind = "factory")
       => creatorCalls[gets[i].name] = 1

\* Two get calls of one bean succeeded, the second made while the creator ran.
C1_Witness ==
  \E i, j \in GetIx :
    /\ i < j /\ gets[i].name = gets[j].name
    /\ gets[i].st = "ok" /\ gets[j].st = "ok"
    /\ gets[j].pc = "creating"
    /\ creatorCalls[gets[i].name] = 1

\* C2: once a get of a bean has failed, every later get of it fails too and
\* its creator is not invoked a second time.
C2_FailurePermanent ==
  /\ \A j \in GetIx :
       (gets[j].via = "get" /\ gets[j].afterFail /\ Done(j))
       => gets[j].st = "fail"
  /\ \A i \in GetIx :
       (gets[i].via = "get" /\ gets[i].known /\ gets[i].st = "fail")
       => creatorCalls[gets[i].name] <= 1

\* A get made after a get that failed because the creator threw has failed.
C2_Witness ==
  \E i, j \in GetIx :
    /\ i < j /\ gets[i].name = gets[j].name
    /\ gets[j].afterFail /\ gets[j].st = "fail"
    /\ gets[i].err.root = "creator"
    /\ creatorCalls[gets[i].name] = 1

\* C5: a get of a name that is in no store, and whose property path has no
\* parent in a store, leaves the three stores unchanged and fails with the
\* "no bean registered" BeanError.
C5_NoSuchBean ==
  /\ [](\A i \in GetIx :
          (gets[i].via = "get" /\ ~gets[i].path /\ Done(i))
          => /\ gets[i].st = "fail"
             /\ gets[i].err.cls = "BeanError"
             /\ gets[i].err.root = "nobean")
  /\ [][(/\ Len(gets') = Len(gets) + 1
         /\ gets'[Len(gets')].via = "get"
         /\ ~gets'[Len(gets')].path)
        => UNCHANGED store]_vars

\* Both a plain name and a property path that nothing registers have failed.
C5_Witness ==
  \E i, j \in GetIx :
    /\ gets[i].name = NA /\ gets[j].name = NAB
    /\ ~gets[i].path /\ ~gets[j].path
    /\ gets[i].st = "fail" /\ gets[j].st = "fail"

\* C6: no name is in two of the registration, pending and resolved stores.
C6_OneStore ==
  \A n \in Names :
    /\ ~(registrations[n] # NoReg /\ pending[n] # 0)
    /\ ~(registrations[n] # NoReg /\ beans[n])
    /\ ~(pending[n] # 0 /\ beans[n])

\* C7: a seeker-injected function returns undefined when called before its
\* target completed construction and the target's value when called after.
C7_Seeker ==
  seeks.name # NoName
  => seeks.val = IF seeks.created THEN seeks.bean ELSE Undefined

\* register("a.b", value(x)) came before register("a", value({})), and
\* nothing was replaced.
ChildFirst(k1, k2) ==
  /\ k1 < k2
  /\ regLog[k1].op = "register" /\ regLog[k1].name = NAB
  /\ regLog[k1].creator = ValueOf("obj")
  /\ regLog[k2].op = "register" /\ regLog[k2].name = NA
  /\ regLog[k2].creator = ValueOf("obj")
  /\ \A m \in RegIx : regLog[m].op = "register"

\* C8 as stated: after register("a.b", value(x)) and then
\* register("a", value({})), get("a.b") yields x and get("a") yields an
\* object whose property b is x.
C8_RoundTrip ==
  \A k1, k2 \in RegIx, i \in GetIx :
    (/\ ChildFirst(k1, k2)
     /\ gets[i].via = "get" /\ gets[i].regs >= k2 /\ Done(i)
     /\ gets[i].name \in {NA, NAB})
    => /\ gets[i].st = "ok"
       /\ gets[i].name = NAB => gets[i].val = Obj(regLog[k1].rid, NoName, 0)
       /\ gets[i].name = NA =>
            defaultGetter(heap, gets[i].val, <<"b">>)
              = Obj(regLog[k1].rid, NoName, 0)

\* C8 as amended: in that order get("a.b") yields the object x, and get("a")
\* yields an object that has no property b.
C8_RoundTripOrphan ==
  \A k1, k2 \in RegIx, i \in GetIx :
    (/\ ChildFirst(k1, k2)
     /\ gets[i].via = "get" /\ gets[i].regs >= k2 /\ Done(i)
     /\ gets[i].name \in {NA, NAB})
    => /\ gets[i].st = "ok"
       /\ gets[i].name = NAB => gets[i].val = Obj(regLog[k1].rid, NoName, 0)
       /\ gets[i].name = NA =>
            defaultGetter(heap, gets[i].val, <<"b">>) = Undefined

\* Both get("a.b") and get("a") returned after the two register calls.
C8_Witness ==
  \E k1, k2 \in RegIx, i, j \in GetIx :
    /\ ChildFirst(k1, k2)
    /\ gets[i].regs >= k2 /\ gets[j].regs >= k2
    /\ gets[i].name = NA /\ gets[i].st = "ok"
    /\ gets[j].name = NAB /\ gets[j].st = "ok"

\* The registration at regLog[k] was replaced or overwritten afterwards.
Displaced(k) ==
  \E m \in RegIx :
    /\ m > k /\ regLog[m].op = "replace"
    /\ regLog[k].name \in {regLog[m].name, regLog[m].retained}

\* C9: a property registered while its parent is in no store is never
\* queued with or chained on the parent and never set on the parent's
\* value, and get of the property's own name yields the registered value.
C9_Orphan ==
  \A k \in RegIx :
    LET e == regLog[k]
        parentName == identifyParentAndProperty(e.name)[1]
        propertyName == identifyParentAndProperty(e.name)[2]
    IN (e.op = "register" /\ e.orphan /\ ~Displaced(k))
       => /\ e.name \notin Range(registrations[parentName].children)
          /\ e.name \notin Range(task[parentName].registration.children)
          /\ \A l \in 1..Len(chain[parentName]) :
               chain[parentName][l].name # e.name
          /\ \A i \in GetIx :
               (gets[i].via = "get" /\ gets[i].name = parentName
                /\ gets[i].st = "ok")
               => defaultGetter(heap, gets[i].val, propertyName) = Undefined
          /\ \A i \in GetIx :
               (/\ gets[i].via = "get" /\ gets[i].name = e.name
                /\ gets[i].regs >= k /\ Done(i)
                /\ e.creator = ValueOf("obj"))
               => /\ gets[i].st = "ok"
                  /\ gets[i].val = Obj(e.rid, NoName, 0)

\* The parent, registered after its property, and the property were both got.
C9_Witness ==
  \E k, k2 \in RegIx, i, j \in GetIx :
    /\ regLog[k].name = NAB /\ regLog[k].orphan /\ ~Displaced(k)
    /\ k2 > k /\ regLog[k2].name = NA /\ regLog[k2].op = "register"
    /\ gets[i].name = NA /\ gets[i].st = "ok"
    /\ gets[j].name = NAB /\ gets[j].st = "ok" /\ gets[j].regs >= k

\* C10: after register(replacement(n, r), creator, deps...) get(r) yields
\* what the replaced registration of n makes and get(n) yields what the new
\* creator makes, which receives the bean of r when it depends on r.
C10_Retention ==
  \A k \in RegIx, i \in GetIx :
    LET e == regLog[k]
    IN (/\ e.op = "replace" /\ e.retained # NoName
        /\ ~\E m \in RegIx : m > k /\ regLog[m].op = "replace"
        /\ gets[i].via = "get" /\ gets[i].regs >= k /\ gets[i].st = "ok")
       => /\ gets[i].name = e.retained => gets[i].val.id[1] = e.oldRid
          /\ gets[i].name = e.name =>
               /\ gets[i].val.id[1] = e.rid
               /\ e.dependencies = <<Dep("bean", e.retained)>>
                    => task[e.name].args[1].id[1] = e.oldRid

\* The direct references among the registered beans, as edges.
DirectEdges ==
  UNION {{<<regLog[k].name, regLog[k].dependencies[i].name>> :
            i \in {j \in 1..Len(regLog[k].dependencies) :
                     regLog[k].dependencies[j].inj = "bean"}} : k \in RegIx}

Successors(E, S) == {e[2] : e \in {f \in E : f[1] \in S}}

\* The names reached from n over one to three edges.
ReachedFrom(E, n) ==
  LET r1 == Successors(E, {n})
      r2 == r1 \cup Successors(E, r1)
  IN r2 \cup Successors(E, r2)

OnDirectCycle(n) == n \in ReachedFrom(DirectEdges, n)

\* A continuation of the container runs: a step that is not a call from
\* outside.
Settling ==
  \/ \E i \in 1..Len(gets) : getReturn(i)
  \/ \E n \in Names : afterDependencies(n)
  \/ \E n \in Names : creatorReturns(n)
  \/ \E n \in Names, i \in 1..MaxRegs : childSettles(n, i)
  \/ \E n \in Names, k \in 1..(2 * MaxRegs) : parentSettles(n, k)
  \/ \E n \in Names, k \in 1..(2 * MaxRegs) : propertySettles(n, k)

\* Every get so far was made after the last register call.
RegisteredFirst == \A j \in GetIx : gets[j].regs = Len(regLog)

\* C3: once beans that form a cycle of direct references (a bean that
\* depends on itself included) are registered, get of every participant
\* fails with a BeanError that reports the cycle, whichever participant is
\* got first and in whatever order the others are got: a call that returned
\* has failed so, and a call that has not returned yet is not stuck.
C3_DirectCycle ==
  RegisteredFirst =>
    \A i \in GetIx :
      (gets[i].via = "get" /\ OnDirectCycle(gets[i].name))
      => IF Done(i)
         THEN /\ gets[i].st = "fail"
              /\ gets[i].err.cls = "BeanError"
              /\ gets[i].err.root = "cycle"
         ELSE ENABLED Settling

\* The three participants of a cycle of length three were got, the
\* property first, and all three calls failed.
C3_Witness ==
  /\ RegisteredFirst
  /\ Len(gets) = 3
  /\ gets[1].name = NAB /\ gets[2].name = NB /\ gets[3].name = NA
  /\ \A i \in GetIx : OnDirectCycle(gets[i].name) /\ gets[i].st = "fail"
  /\ <<NA, NB>> \in DirectEdges /\ <<NB, NAB>> \in DirectEdges

\* a and b are registered with a reference from a to b and one from b to
\* a, and every call of get or of an injected function came after that.
LazyCycleFirst ==
  /\ Len(regLog) = 2
  /\ \A j \in GetIx : gets[j].regs = 2

\* The promises that promise() injected into the creator of n.
Futures(n) ==
  {i \in 1..Len(task[n].deps) :
     task[n].deps[i].inj = "promise" /\ task[n].pc # "none"}

\* What the future injected for dependency i of n has settled to.
Future(n, i) == Settle(Cur, heap, task[n].deps[i].h)

\* C4: when a cycle has an edge that is a promise() or a promiser() and
\* the creators do not wait for what was injected, get of every participant
\* eventually succeeds, whichever is got first, and the injected promise and
\* the injected getter yield the instance that get returns for the target.
C4_LazyCycle ==
  /\ [](LazyCycleFirst =>
          /\ \A i \in GetIx : Done(i) => gets[i].st = "ok"
          /\ \A i, j \in GetIx :
               (gets[i].name = gets[j].name /\ Done(i) /\ Done(j))
               => gets[i].val = gets[j].val
          /\ \A n \in {NA, NB} : \A i \in Futures(n) :
               Future(n, i).st # "wait"
               => /\ Future(n, i).st = "ok"
                  /\ Future(n, i).error = NoErr
                  /\ Future(n, i).bean = outc[task[n].deps[i].name].bean
                  /\ \A j \in GetIx :
                       (gets[j].name = task[n].deps[i].name /\ Done(j))
                       => gets[j].val = Future(n, i).bean)
  /\ LazyCycleFirst ~>
       /\ \A i \in GetIx : Done(i)
       /\ \A n \in {NA, NB} : \A i \in Futures(n) : Future(n, i).st = "ok"

\* b, which refers to a directly, was got first, then a, and the getter
\* injected into a was called: all three returned the beans.
C4_Witness ==
  /\ LazyCycleFirst
  /\ Len(gets) = 3
  /\ gets[1].name = NB /\ gets[1].via = "get"
  /\ gets[2].name = NA /\ gets[2].via = "get"
  /\ gets[3].name = NB /\ gets[3].via = "promiser"
  /\ \A i \in GetIx : gets[i].st = "ok"
  /\ gets[3].val = gets[1].val
  /\ task[NB].deps[1].inj = "bean"

\* The replacement specifiers a caller can hand to register.
Replacements ==
  {Specifier("replacement", n, r) : n \in Names, r \in {NoName} \cup Names}

\* C11: register(replacement(n, ...), ...) throws a BeanError at once
\* whenever n is pending, resolved or not registered at all: a well-formed
\* replacement throws in each of those states and in no other, a
\* replacement that went through found n registered and not started, and
\* a replacement that threw left the three stores, the retained name
\* included, as they were.
C11_ReplaceRejected ==
  /\ \A sp \in Replacements :
       LET r == registerOutcome(Cur, Len(regLog) + 1, sp, FactoryOf("ok"), <<>>)
       IN /\ StateOf(Cur, sp.name) # "registered"
               <=> r.err.cls = "BeanError"
          /\ StateOf(Cur, sp.name) = "registered" <=> r.err = NoErr
          /\ r.err # NoErr => r.s = Cur
  /\ \A i \in RegIx : regLog[i].op = "replace" => regLog[i].state = "registered"
  /\ thrown.op = "register" /\ thrown.specifier.kind = "replacement"
       => /\ thrown.err.cls = "BeanError"
          /\ thrown.unchanged

C11_Witness ==
  /\ thrown.op = "register"
  /\ thrown.specifier.kind = "replacement"
  /\ thrown.specifier.retained # NoName
  /\ thrown.err.root = "created"
  /\ thrown.state = "pending"
  /\ \E i \in RegIx : regLog[i].op = "replace"

\* C12: register(n, ...) with a specifier that is not a replacement throws
\* a BeanError at once whenever n is registered, pending (also while n's
\* own creator runs) or resolved, and leaves the registration or outcome of
\* n as it was: a well-formed call throws in exactly those states and
\* changes nothing, a call that went through found n in no store.
C12_RegisterRejected ==
  /\ \A n \in Names :
       LET r == registerOutcome(Cur, Len(regLog) + 1,
                                Specifier("string", n, NoName),
                                FactoryOf("ok"), <<>>)
       IN /\ StateOf(Cur, n) # "unregistered" <=> r.err.cls = "BeanError"
          /\ StateOf(Cur, n) = "unregistered" <=> r.err = NoErr
          /\ r.err # NoErr =>
               /\ r.s.registrations[n] = registrations[n]
               /\ r.s.pending[n] = pending[n]
               /\ r.s.beans[n] = beans[n]
               /\ r.s.outc[n] = outc[n]
               /\ r.s = Cur
  /\ \A i \in RegIx :
       regLog[i].op = "register" => regLog[i].state = "unregistered"
  /\ /\ thrown.op = "register"
     /\ thrown.specifier.kind \in {"string", "collection"}
     /\ thrown.state # "unregistered"
     => thrown.err.cls = "BeanError" /\ thrown.unchanged

C12_Witness ==
  /\ thrown.op = "register"
  /\ thrown.specifier.kind = "string"
  /\ thrown.err.root = "registered"
  /\ thrown.state = "pending"
  /\ thrown.pc = "creating"
  /\ thrown.creator = FactoryOf("ok")
  /\ thrown.dependencies = <<>>

\* The arguments a caller can hand to register, of the right and of the
\* wrong classes.
AnySpecifier ==
  {Specifier("string", n, NoName) : n \in {NA, NB}}
  \cup {Specifier("replacement", NA, r) : r \in {NoName, NAB}}
  \cup {Specifier("other", NoName, NoName)}
AnyCreator ==
  {ConfigOf(k) : k \in {"value", "promise", "factory", "alias", "promiser",
                        "promise(name)"}}
AnyDependencies ==
  {<<>>} \cup {<<Dep(k, NB)>> : k \in {"bean", "promiser", "factory",
                                      "promise(future)"}}
     \cup {<<Dep("bean", NB), Dep("factory", NA)>>}

\* The combinations that are not allowed.
Illegal(specifier, creator, dependencies) ==
  \/ dependencies # <<>> /\ creator.kind \in {"value", "promise", "alias"}
  \/ creator.kind \in {"promiser", "promise(name)"}
  \/ \E i \in 1..Len(dependencies) :
       dependencies[i].inj \in {"factory", "promise(future)"}
  \/ specifier.kind = "other"

\* C14: register throws a BeanError at once, and stores nothing, for each
\* illegal combination: dependencies given with a value, promise or alias
\* creator; an injector (promiser, or promise(name)) used as creator; a
\* creator (factory, or promise(future)) used as a dependency; something
\* that is not a specifier used as specifier.
C14_IllegalArguments ==
  /\ \A sp \in AnySpecifier, c \in AnyCreator, d \in AnyDependencies :
       Illegal(sp, c, d) =>
         LET r == registerOutcome(Cur, Len(regLog) + 1, sp, c, d)
         IN r.err.cls = "BeanError" /\ r.s = Cur
  /\ /\ thrown.op = "register"
     /\ Illegal(thrown.specifier, thrown.creator, thrown.dependencies)
     => thrown.err.cls = "BeanError" /\ thrown.unchanged
  /\ \A i \in RegIx :
       ~Illegal(Specifier("string", regLog[i].name, NoName),
                regLog[i].creator, regLog[i].dependencies)

C14_Witness ==
  /\ thrown.op = "register"
  /\ thrown.err.root = "dependency"
  /\ thrown.dependencies = <<Dep("promise(future)", NB)>>
  /\ thrown.specifier = Specifier("string", NA, NoName)
  /\ thrown.state = "unregistered"
  /\ registrations[NB] # NoReg

\* C13: for every payload v, the falsy payloads "", null and undefined
\* included, register(n, value(v)) followed by get(n) resolves to exactly v:
\* a get of n that was called after the registration and has returned
\* resolved with the payload of the registration.
C13_ValueRoundTrip ==
  \A i \in GetIx : \A k \in RegIx :
    /\ regLog[k].name = gets[i].name
    /\ regLog[k].creator.kind = "value"
    /\ k <= gets[i].regs
    /\ Done(i)
    => /\ gets[i].st = "ok"
       /\ gets[i].val = PayloadValue(regLog[k].creator.payload, regLog[k].rid)

\* C15: the class of an error is kept through every enclosing "while
\* creating bean" frame, for chains of any length: a get fails with a
\* BeanError when the root cause is a missing bean or a cycle, and with an
\* error that is not a BeanError when the root cause was thrown by a
\* factory the caller supplied.
C15_Classification ==
  \A i \in GetIx :
    gets[i].st = "fail" /\ gets[i].err.frames # <<>> =>
      /\ gets[i].err.root \in {"nobean", "cycle"}
           => gets[i].err.cls = "BeanError"
      /\ gets[i].err.root = "creator" => gets[i].err.cls = "Error"

C15_Witness ==
  \E i \in GetIx :
    /\ gets[i].st = "fail"
    /\ gets[i].name = NB
    /\ gets[i].err.frames = <<NAB, NA, NB>>
    /\ gets[i].err.root = "creator"
    /\ gets[i].err.cls = "Error"

\* What resolving the parent failed with, for a get answered by reading a
\* property of its parent: the reason the parent's promise rejected with or
\* the error its outcome holds (a promise() that rejected); NoErr if the
\* parent was resolved, or has not settled.
ParentFailure(i) == Settle(Cur, heap, gets[i].h.ph).error

\* C16: for get("a.b") with no "a.b" in a store, answered by reading b from
\* the parent a: if resolving a failed with an error that is not a
\* BeanError (its creator threw, its promise rejected), the get fails with
\* that error, not a BeanError and not "no bean registered"; if resolving a
\* failed with a BeanError, the get fails with the combined "no bean
\* registered" BeanError.
C16_ParentFailure ==
  \A i \in GetIx :
    /\ gets[i].name = NAB
    /\ ~gets[i].known
    /\ gets[i].h.t = "prop"
    /\ Done(i)
    /\ ParentFailure(i) # NoErr
    => /\ gets[i].st = "fail"
       /\ IF ParentFailure(i).cls = "BeanError"
          THEN gets[i].err.cls = "BeanError" /\ gets[i].err.root = "nobean"
          ELSE /\ gets[i].err = ParentFailure(i)
               /\ gets[i].err.cls = "Error"
               /\ gets[i].err.root \in {"creator", "promise"}

C16_Witness ==
  \E i \in GetIx :
    /\ gets[i].name = NAB
    /\ ~gets[i].known
    /\ gets[i].h.t = "prop"
    /\ gets[i].st = "fail"
    /\ ParentFailure(i).root = "promise"
    /\ gets[i].err.cls = "Error"

\* The registrations of a property whose parent was in the given store
\* when register was called.
ChildOf(state) ==
  {k \in RegIx : /\ regLog[k].op = "register" /\ HasParent(regLog[k].name)
                 /\ regLog[k].parent = state}

\* The value returned by get i has, as the property that registration k
\* names, the bean made for k.
Applied(i, k) ==
  /\ task[regLog[k].name].pc = "done"
  /\ outc[regLog[k].name].error = NoErr
  /\ outc[regLog[k].name].bean.k = "obj"
  /\ outc[regLog[k].name].bean.id[1] = regLog[k].rid
  /\ defaultGetter(heap, gets[i].val,
                   identifyParentAndProperty(regLog[k].name)[2])
       = outc[regLog[k].name].bean

\* C17: when a.b is registered while a is registered and not started, the
\* first get(a) resolves every queued child and sets it on a's bean before
\* a's outcome is delivered or stored: no get(a) has resolved with the
\* queued child missing, and a is in the outcome store only with the child
\* set or its error recorded.
C17_QueuedChild ==
  \A k \in ChildOf("registered") :
    LET parentName == identifyParentAndProperty(regLog[k].name)[1]
        propertyName == identifyParentAndProperty(regLog[k].name)[2]
    IN /\ \A i \in GetIx :
            gets[i].via = "get" /\ gets[i].name = parentName
            /\ gets[i].st = "ok"
            => Applied(i, k)
       /\ beans[parentName] =>
            \/ outc[parentName].error # NoErr
            \/ defaultGetter(heap, outc[parentName].bean, propertyName)
                 = outc[regLog[k].name].bean
               /\ task[regLog[k].name].pc = "done"

C17_Witness ==
  \E k \in ChildOf("registered") : \E i \in GetIx :
    /\ regLog[k].creator = FactoryOf("ok")
    /\ gets[i].via = "get" /\ gets[i].st = "ok"
    /\ gets[i].name = identifyParentAndProperty(regLog[k].name)[1]
    /\ Applied(i, k)

\* C18: when a.b is registered while a is pending, every get(a) called
\* after that call of register returned resolves only after a.b has been
\* resolved and set on a's bean: a successful get(a) called after the
\* registration has the property.
C18_PendingParent ==
  \A k \in ChildOf("pending") : \A i \in GetIx :
    /\ gets[i].via = "get"
    /\ gets[i].name = identifyParentAndProperty(regLog[k].name)[1]
    /\ gets[i].regs >= k
    /\ gets[i].quiet
    /\ gets[i].st = "ok"
    => Applied(i, k)

\* C19: when a.b is registered after a has been resolved, a is pending
\* again and every later get(a) waits for the change: a is no longer in
\* the outcome store, and a successful get(a) called after the registration
\* returns the instance the earlier gets returned, with the property set.
C19_ReopenedParent ==
  \A k \in ChildOf("resolved") :
    LET parentName == identifyParentAndProperty(regLog[k].name)[1]
    IN /\ StateOf(Cur, parentName) = "pending"
       /\ \A i \in GetIx :
            /\ gets[i].via = "get" /\ gets[i].name = parentName
            /\ gets[i].regs >= k
            /\ gets[i].st = "ok"
            => /\ Applied(i, k)
               /\ gets[i].val = outc[parentName].bean
               /\ \A j \in GetIx :
                    gets[j].via = "get" /\ gets[j].name = parentName
                    /\ gets[j].st = "ok"
                    => gets[j].val = gets[i].val

C19_Witness ==
  \E k \in ChildOf("resolved") : \E i, j \in GetIx :
    /\ regLog[k].creator = FactoryOf("ok")
    /\ gets[j].via = "get" /\ gets[j].st = "ok" /\ gets[j].regs < k
    /\ gets[j].name = identifyParentAndProperty(regLog[k].name)[1]
    /\ gets[i].via = "get" /\ gets[i].st = "ok" /\ gets[i].regs >= k
    /\ gets[i].name = gets[j].name
    /\ Applied(i, k)

\* The error the creation of n was rejected with.
CreationError(n) == chain[n][task[n].link].err

\* C20: if the creation of a.b fails, then whatever store a was in when
\* a.b was registered (registered, pending or resolved), every get(a)
\* called after the failure fails with the error of a.b, and the gets of a
\* that resolved before the failure keep their result: a get of a called
\* once a.b had failed and the container had run its continuations has,
\* when it returns, failed with that error.
C20_ChildFailure ==
  \A k \in ChildOf("registered") \cup ChildOf("pending") \cup ChildOf("resolved") :
    LET childName == regLog[k].name
        parentName == identifyParentAndProperty(childName)[1]
    IN \A i \in GetIx :
         /\ gets[i].via = "get" /\ gets[i].name = parentName
         /\ childName \in gets[i].failed
         /\ gets[i].quiet
         /\ Done(i)
         => /\ gets[i].st = "fail"
            /\ gets[i].err = CreationError(childName)
            /\ gets[i].err.frames = <<childName>>

C20_Witness ==
  \E k \in ChildOf("resolved") : \E i, j \in GetIx :
    /\ gets[j].via = "get" /\ gets[j].st = "ok" /\ gets[j].regs < k
    /\ gets[j].name = identifyParentAndProperty(regLog[k].name)[1]
    /\ gets[i].via = "get" /\ gets[i].st = "fail"
    /\ gets[i].name = gets[j].name
    /\ regLog[k].name \in gets[i].failed
    /\ gets[i].quiet
    /\ gets[i].err = CreationError(regLog[k].name)

\* The replacements of the parent of the property registered at k.
ReplacementsOfParent(k) ==
  {m \in RegIx : /\ regLog[m].op = "replace"
                 /\ regLog[m].name = identifyParentAndProperty(regLog[k].name)[1]}

\* C21: after a replacement, the children queued under the old
\* registration are set only on the bean of the retained name (if any) and
\* never on the bean the new registration makes; a property registered
\* after the replacement is set on the new parent.  The old registration
\* is the one the first replacement after the child's registration found;
\* its retained name is fresh and not retained again later.
C21_ReplacedChildren ==
  \A k \in ChildOf("registered") : \A m \in ReplacementsOfParent(k) :
    LET propertyName == identifyParentAndProperty(regLog[k].name)[2]
        last == \A m2 \in ReplacementsOfParent(k) : m2 <= m
        first == \A m2 \in ReplacementsOfParent(k) : m2 > k => m2 >= m
        kept == \A m2 \in ReplacementsOfParent(k) :
                  m2 > m => regLog[m2].retained # regLog[m].retained
    IN /\ k < m =>
            /\ \A e \in heap : e.obj[1] = regLog[m].rid => e.prop # propertyName
            /\ \A i \in GetIx :
                 gets[i].via = "get" /\ gets[i].st = "ok"
                 /\ gets[i].val.id[1] = regLog[m].rid
                 => defaultGetter(heap, gets[i].val, propertyName) = Undefined
            /\ \A i \in GetIx :
                 /\ regLog[m].retained # NoName /\ regLog[m].fresh
                 /\ first /\ kept
                 /\ gets[i].via = "get" /\ gets[i].st = "ok"
                 /\ gets[i].name = regLog[m].retained
                 => /\ gets[i].val.id[1] = regLog[m].oldRid
                    /\ Applied(i, k)
       /\ k > m /\ last =>
            \A i \in GetIx :
              gets[i].via = "get" /\ gets[i].st = "ok"
              /\ gets[i].name = regLog[m].name
              => gets[i].val.id[1] = regLog[m].rid /\ Applied(i, k)

C21_Witness ==
  \E k \in ChildOf("registered") : \E m \in ReplacementsOfParent(k) :
    \E i, j \in GetIx :
      /\ k < m /\ regLog[m].retained = NB
      /\ gets[i].via = "get" /\ gets[i].st = "ok" /\ gets[i].name = NB
      /\ Applied(i, k)
      /\ gets[j].via = "get" /\ gets[j].st = "ok" /\ gets[j].name = NA
      /\ gets[j].val.id[1] = regLog[m].rid

\* The get i was called for a registered name whose construction had not
\* completed: it started the construction or waits for a promise of the
\* pending store that stands for it.
DuringConstruction(i) ==
  /\ gets[i].via = "get"
  /\ gets[i].known
  /\ gets[i].pc \in {"none", "deps", "creating", "children"}
  /\ gets[i].h.t = "link"

\* C22: all gets that are outstanding for one name while it is under
\* construction observe the same outcome: once they have returned, all of
\* them resolved with the same value or all failed with the same error.
C22_SameOutcome ==
  \A i, j \in GetIx :
    /\ gets[i].name = gets[j].name
    /\ DuringConstruction(i) /\ DuringConstruction(j)
    /\ Done(i) /\ Done(j)
    => /\ gets[i].st = gets[j].st
       /\ gets[i].val = gets[j].val
       /\ gets[i].err = gets[j].err

\* The successful gets of the name of get i, in a store when they were
\* called, that were called before get i.
EarlierOk(i) ==
  {j \in GetIx : /\ j < i /\ gets[j].via = "get" /\ gets[j].st = "ok"
                 /\ gets[j].known /\ gets[j].name = gets[i].name}

\* C23 as stated: outcomes are final.  Once a get of a name in a store has
\* resolved, no later get of the name fails, and once a get of a name in a
\* store has failed, no later get of the name resolves.
C23_Final ==
  \A i \in GetIx :
    gets[i].via = "get" /\ Done(i) =>
      /\ gets[i].afterOk => gets[i].st = "ok"
      /\ gets[i].afterFail => gets[i].st = "fail"

\* C23 amended: a failure is final, and a success is final except for the
\* failure of a property registered on the name once its construction had
\* started.  Once a get of a name in a store has failed, no later get of
\* the name resolves; once a get of a name in a store has resolved, a later
\* get resolves with the same value or fails with the error of such a
\* property.
C23_FinalUnlessChildFails ==
  \A i \in GetIx :
    gets[i].via = "get" /\ Done(i) =>
      /\ gets[i].afterFail => gets[i].st = "fail"
      /\ gets[i].afterOk =>
           \/ /\ gets[i].st = "ok"
              /\ \A j \in EarlierOk(i) : gets[j].val = gets[i].val
           \/ /\ gets[i].st = "fail"
              /\ \E k \in ChildOf("pending") \cup ChildOf("resolved") :
                   /\ identifyParentAndProperty(regLog[k].name)[1] = gets[i].name
                   /\ task[regLog[k].name].pc = "failed"
                   /\ gets[i].err = CreationError(regLog[k].name)

C23_Witness ==
  \E i \in GetIx : \E k \in ChildOf("resolved") :
    /\ gets[i].via = "get" /\ gets[i].afterOk /\ gets[i].st = "fail"
    /\ identifyParentAndProperty(regLog[k].name)[1] = gets[i].name
    /\ gets[i].err = CreationError(regLog[k].name)
    /\ EarlierOk(i) # {}

\* C24: once a resolution starts it runs to completion.  When every
\* creator the caller supplied returns, every get eventually returns, with
\* a success or a failure: no get waits forever.
C24_Settles ==
  \A i \in 1..MaxGets : (i \in GetIx) ~> (i \in GetIx /\ Done(i))

\* C25: a name goes Unregistered -> Registered -> Pending -> Resolved.
\* Whenever the construction of a name has completed, with success or with
\* failure, the name is in the resolved store and not in the pending store.
C25_Stored ==
  \A n \in Names :
    task[n].pc \in {"done", "failed"} => beans[n] /\ pending[n] = 0

\* Something asked for name t: a get or a call of an injected getter named
\* it (or a property of it), or a construction that started depends on it
\* directly or through promise().
Requested(t) ==
  \/ \E i \in GetIx :
       \/ gets[i].name = t
       \/ gets[i].path /\ t = NA
  \/ \E n \in Names : \E k \in 1..Len(task[n].deps) :
       /\ task[n].pc # "none"
       /\ task[n].deps[k].name = t
       /\ task[n].deps[k].inj \in {"bean", "promise"}

\* The construction of n waits for none of its direct dependencies.
DirectSettled(n) ==
  \A k \in 1..Len(task[n].deps) :
    task[n].deps[k].inj = "bean"
    => Settle(Cur, heap, task[n].deps[k].h).st # "wait"

\* C26: a getter injected by promiser() resolves its target only when it
\* is called: a target that nothing else asked for stays Registered and its
\* creator is not invoked.  A dependency injected by promise() does not
\* block the dependent: its creator can be invoked as soon as its direct
\* dependencies have settled, whether the promised target has or not.
C26_Lazy ==
  /\ \A t \in Names :
       ~Requested(t)
       => /\ task[t].pc = "none"
          /\ creatorCalls[t] = 0
          /\ (\E k \in RegIx : regLog[k].name = t)
             => StateOf(Cur, t) = "registered"
  /\ \A n \in Names :
       (task[n].pc = "deps" /\ DirectSettled(n)) => ENABLED afterDependencies(n)

\* The creator of b, which takes a promise of a, was invoked while a is
\* under construction and the promise is unsettled.
C26_Witness ==
  /\ task[NB].deps # <<>>
  /\ task[NB].deps[1].inj = "promise"
  /\ Invoked(NB)
  /\ Future(NB, 1).st = "wait"
  /\ task[NA].pc = "deps"

\* Name n was registered before call i was made.
KnownAt(i, n) == \E k \in 1..gets[i].regs : regLog[k].name = n

\* The ways to write name as parent.prop or parent[prop] with the property
\* being the last segment: a dotted property holds no '.', a bracketed one
\* no '['; a name that ends in ']' is read as bracketed.
Splits(name) ==
  {pp \in {<<SubSeq(name, 1, j), SubSeq(name, j + 2, Len(name))>> :
             j \in 0..(Len(name) - 1)} \cup
          {<<SubSeq(name, 1, j), SubSeq(name, j + 2, Len(name) - 1)>> :
             j \in 0..(Len(name) - 2)} :
     IF name[Len(name)] = "]"
     THEN /\ name = pp[1] \o <<"[">> \o pp[2] \o <<"]">>
          /\ \A x \in 1..Len(pp[2]) : pp[2][x] # "["
     ELSE /\ name = pp[1] \o <<".">> \o pp[2]
          /\ \A x \in 1..Len(pp[2]) : pp[2][x] # "."}

RECURSIVE Addressed(_, _, _)
\* Handle h answers call i for name: the literal bean when the name was
\* registered, else a read of the last segment on what answers for the
\* parent, else the failure "no bean registered".
Addressed(i, h, name) ==
  IF KnownAt(i, name) THEN h.t \in {"outcome", "link"} /\ h.n = name
  ELSE IF \E pp \in Splits(name) : pp[1] # NoName /\ pp[2] # NoName
  THEN /\ h.t = "prop"
       /\ \E pp \in Splits(name) :
            h.prop = pp[2] /\ Addressed(i, h.ph, pp[1])
  ELSE h = Rejected(BeanError("nobean"))

\* C27: a literally registered name takes precedence over property
\* addressing.  get("a.b") with "a.b" registered yields the bean of that
\* registration and reads no property of a.  Only a name that is not
\* registered is split at its rightmost '.' or '[...]' segment and read
\* through the parent's getter, the parent being looked up the same way.
C27_LiteralFirst ==
  \A i \in GetIx :
    gets[i].via = "get" =>
      /\ Addressed(i, gets[i].h, gets[i].name)
      /\ (KnownAt(i, gets[i].name) /\ gets[i].st = "ok")
         => \E k \in RegIx : /\ regLog[k].name = gets[i].name
                             /\ gets[i].val.id[1] = regLog[k].rid
      /\ (gets[i].h.t = "prop" /\ gets[i].st = "ok")
         => LET parent == Settle(Cur, heap, gets[i].h.ph).bean
            IN gets[i].val \in {Undefined} \cup
                 {e.val : e \in {x \in heap : x.obj = parent.id
                                              /\ x.prop = gets[i].h.prop}}

\* a.b was registered before a, so that it is no property of a's bean:
\* get("a.b") returned the registered bean although a has no property b,
\* and get("a[b].c") was read through two getters.
C27_Witness ==
  /\ Len(gets) = 2
  /\ gets[1].name = NAB /\ gets[1].st = "ok" /\ KnownAt(1, NAB)
  /\ gets[1].val.k = "obj"
  /\ gets[2].name = NAbrC /\ KnownAt(2, NA) /\ Done(2)
  /\ gets[2].h.t = "prop" /\ gets[2].h.ph.t = "prop"
  /\ \E k \in RegIx : regLog[k].name = NAB /\ regLog[k].orphan

\* The direct-reference dependencies of the construction of n.
Direct(n) == {k \in 1..Len(task[n].deps) : task[n].deps[k].inj = "bean"}

\* C28: the dependencies of one registration are resolved concurrently,
\* all of them started before the construction waits for any, and the
\* creator is invoked only at a moment when every direct dependency has
\* settled, all of them without an error; a construction with a direct
\* dependency whose own construction or lookup failed never invokes its
\* creator.
C28_FanIn ==
  /\ [](\A n \in Names :
          /\ task[n].pc # "none"
             => /\ Len(task[n].deps) = Len(task[n].registration.dependencies)
                /\ \A k \in 1..Len(task[n].deps) :
                     task[n].deps[k].inj \in {"bean", "promise"}
                     => task[n].deps[k].h # NoHandle
          /\ (\E k \in Direct(n) :
                /\ task[n].deps[k].h.t \in {"rejected", "link"}
                /\ Settle(Cur, heap, task[n].deps[k].h).st = "rej")
             => creatorCalls[n] = 0 /\ task[n].args = <<>>)
  /\ [][\A n \in Names :
          creatorCalls'[n] > creatorCalls[n]
          => \A k \in Direct(n) :
               /\ Settle(Cur, heap, task[n].deps[k].h).st = "ok"
               /\ Settle(Cur, heap, task[n].deps[k].h).error = NoErr]_vars

\* The creator of b was invoked with the beans of a and of a.b, which were
\* under construction at the same time.
C28_Witness ==
  /\ creatorCalls[NB] = 1
  /\ Len(task[NB].args) = 2
  /\ Direct(NB) = {1, 2}
  /\ task[NB].args[1].k = "obj" /\ task[NB].args[2].k = "obj"
  /\ task[NB].args[1] # task[NB].args[2]
  /\ task[NB].deps[1].h.t = "link" /\ task[NB].deps[2].h.t = "link"

\* The promises chained on parent n for properties registered after n
\* started resolving, in the order of their register calls.
PropertyLinks(n) ==
  {k \in 1..Len(chain[n]) : chain[n][k].t = "withProperty"}

\* The setter of the property of link k was invoked on n.
SetterInvoked(n, k) ==
  /\ chain[n][k].st = "ok"
  /\ GetResult(Cur, heap, chain[n][k].child).st = "ok"

\* C29: properties registered on a parent after it started resolving are
\* applied in registration order: the setter of a property registered later
\* is invoked only after the setter of each one registered earlier.
C29_Order ==
  \A k1, k2 \in PropertyLinks(NA) :
    (k1 < k2 /\ SetterInvoked(NA, k2)) => SetterInvoked(NA, k1)

\* C30: when a.b is registered while a is pending, or resolved and then
\* reopened, a.b is resolved only once a has settled successfully: the
\* creator of a.b is invoked only after the construction of a has completed
\* well, and never when it failed.
C30_ChildAfterParent ==
  \A k \in ChildOf("pending") \cup ChildOf("resolved") :
    creatorCalls[regLog[k].name] > 0
    => task[identifyParentAndProperty(regLog[k].name)[1]].pc = "done"

\* C31: a custom setter may be asynchronous and is awaited.  When a.b,
\* queued on the registered collection a, is set through an asynchronous
\* setter, a get(a) that succeeded did so after the future the setter
\* returned had resolved; a setter whose future rejects fails a.
C31_SetterAwaited ==
  \A c \in setting : \A i \in GetIx :
    /\ \E k \in ChildOf("registered") : regLog[k].name = c.name
    /\ gets[i].via = "get" /\ gets[i].st = "ok"
    /\ gets[i].val.id = c.obj
    => c.st = "ok"

\* C32: every register call that succeeds, a replacement included, links
\* the registered name into its parent: when a.b was registered or replaced
\* while a was registered, a.b is among the queued children of a for as
\* long as a stays registered.
C32_Linked ==
  \A m \in RegIx :
    /\ HasParent(regLog[m].name)
    /\ regLog[m].parent = "registered"
    /\ StateOf(Cur, identifyParentAndProperty(regLog[m].name)[1]) = "registered"
    => regLog[m].name \in
         Range(registrations[identifyParentAndProperty(regLog[m].name)[1]].children)

\* C33: a seeker-injected function is a cache probe.  A call of it starts
\* no resolution and changes neither the registration, the pending nor the
\* resolved store, whatever state its target is in.
C33_SeekerProbe ==
  [][seeks' # seeks
     => UNCHANGED <<registrations, pending, beans, outc, chain, task,
                    creatorCalls, heap>>]_vars

\* The function was called while its target a was registered: it returned
\* undefined and a is still registered, its creator not invoked.
C33_Witness ==
  /\ seeks.name = NA
  /\ seeks.val = Undefined
  /\ StateOf(Cur, NA) = "registered"
  /\ task[NA].pc = "none"
  /\ creatorCalls[NA] = 0

\* The step is a successful register(replacement(n, r), ...) whose retained
\* name r was in a store when it was called.
ReplacesOnto(r) ==
  /\ Len(regLog') = Len(regLog) + 1
  /\ regLog'[Len(regLog')].op = "replace"
  /\ regLog'[Len(regLog')].retained = r
  /\ InStore(Cur, r)

\* C34: register(replacement(n, r), ...) destroys nothing but the entry it
\* replaces.  When r already names a registered, pending or resolved bean,
\* a call that does not fail leaves the registration of r as it was and r
\* in the one store it was in.
C34_RetainedIntact ==
  [][\A r \in Names :
       ReplacesOnto(r)
       => /\ registrations'[r] = registrations[r]
          /\ pending'[r] = pending[r]
          /\ beans'[r] = beans[r]]_vars

\* The registrations of a.b whose creator takes its own parent a as a
\* direct reference.
OwnParent ==
  {k \in RegIx : /\ regLog[k].name = NAB
                 /\ Dep("bean", NA) \in Range(regLog[k].dependencies)}

\* C35: a child a.b whose creator depends directly on its parent a is
\* handled without hanging, whatever state a was in when a.b was
\* registered: every get(a) and every get("a.b") eventually returns, with
\* a value or with an error.
C35_OwnParentSettles ==
  \A i \in 1..MaxGets :
    (i \in GetIx /\ gets[i].name \in {NA, NAB} /\ OwnParent # {})
      ~> (i \in GetIx /\ Done(i))

\* What get(target) yields from the promise a future was made of: lines
\* 72-74 applied to the same resolution.
AsGet(h) == GetResult(Cur, heap, h)

\* C36: the future promise() injects and the future the getter of
\* promiser() returns settle as get(target) does: they resolve with the
\* value get(target) resolves with and they reject whenever get(target)
\* fails.
C36_FuturesAsGet ==
  /\ [](\A n \in Names : \A i \in Futures(n) :
          Future(n, i).st # "wait"
          => /\ Future(n, i).st = AsGet(task[n].deps[i].h).st
             /\ Future(n, i).bean = AsGet(task[n].deps[i].h).bean)
  /\ [][\A j \in 1..Len(gets) :
          (gets[j].via = "promiser" /\ gets[j].st = "wait"
           /\ gets'[j].st # "wait")
          => /\ gets'[j].st = (IF AsGet(gets[j].h).st = "ok" THEN "ok" ELSE "fail")
             /\ gets'[j].val = AsGet(gets[j].h).bean]_vars

\* The name was the name or the retained name of a register call among the
\* first m that returned.
RegisteredBy(name, m) ==
  \E k \in RegIx : k <= m /\ name \in {regLog[k].name, regLog[k].retained}

\* The reads of a property of a's bean: gets of "a.b" or "a[b]" called when
\* that name had no registration of its own.
PropertyReads ==
  {i \in GetIx : /\ gets[i].via = "get" /\ gets[i].name \in {NAB, NAbr}
                 /\ ~RegisteredBy(gets[i].name, gets[i].regs)}

\* C37: property reads are never memoized.  A get of a name with no
\* registration of its own adds no entry for that name to the registration,
\* pending or resolved store, so that the name can still be registered, and
\* every such read that succeeds returns what the parent's getter yields
\* when the read completes.
C37_NotMemoized ==
  /\ [](\A n \in AllNames :
          ~RegisteredBy(n, Len(regLog))
          => /\ ~InStore(Cur, n)
             /\ canRegister(Cur, n))
  /\ [][\A i \in PropertyReads :
          (gets[i].st = "wait" /\ gets'[i].st = "ok")
          => gets'[i].val = defaultGetter(heap, outc[NA].bean,
                              identifyParentAndProperty(gets[i].name)[2])]_vars

\* "a[b]" was read twice, before and after the property b of a's bean was
\* set: the first read returned undefined, the second the object, and
\* "a[b]" is in no store.
C37_Witness ==
  /\ Len(gets) = 2
  /\ PropertyReads = {1, 2}
  /\ gets[1].name = NAbr /\ gets[1].st = "ok" /\ gets[1].val = Undefined
  /\ gets[2].name = NAbr /\ gets[2].st = "ok" /\ gets[2].val.k = "obj"
  /\ ~InStore(Cur, NAbr)
  /\ canRegister(Cur, NAbr)

\* The step is a call of get(name).
CallsGet(name) ==
  /\ Len(gets') = Len(gets) + 1
  /\ gets'[Len(gets')].via = "get"
  /\ gets'[Len(gets')].name = name

\* C38: retrieving a queued child does not start its parent.  When a.b
\* was registered while a was registered, get("a.b") creates the child and
\* leaves a registered, its creator not invoked: only get(a) takes a out of
\* the registrations.  A later get(a) sets the instance get("a.b") returned
\* on a's bean, and the child's creator is invoked once.
C38_QueuedChildAlone ==
  /\ [](\A k \in ChildOf("registered") :
          /\ creatorCalls[regLog[k].name] <= 1
          /\ StateOf(Cur, NA) = "registered"
             => /\ creatorCalls[NA] = 0
                /\ task[NA].pc = "none"
                /\ regLog[k].name \in Range(registrations[NA].children)
          /\ \A i, j \in GetIx :
               (/\ gets[i].via = "get" /\ gets[i].name = NA
                /\ gets[i].st = "ok"
                /\ gets[j].via = "get" /\ gets[j].name = regLog[k].name
                /\ gets[j].st = "ok")
               => defaultGetter(heap, gets[i].val,
                    identifyParentAndProperty(regLog[k].name)[2]) = gets[j].val)
  /\ [][(ChildOf("registered") # {} /\ StateOf(Cur, NA) = "registered")
        => \/ CallsGet(NA)
           \/ /\ registrations'[NA] = registrations[NA]
              /\ pending'[NA] = pending[NA]
              /\ beans'[NA] = beans[NA]
              /\ task'[NA] = task[NA]
              /\ creatorCalls'[NA] = creatorCalls[NA]]_vars

\* get("a.b") returned the child made by a factory while a was still
\* registered and its creator had not been invoked.
C38_Witness ==
  \E k \in ChildOf("registered") : \E j \in GetIx :
    /\ regLog[k].name = NAB /\ regLog[k].creator = FactoryOf("ok")
    /\ gets[j].via = "get" /\ gets[j].name = NAB /\ gets[j].st = "ok"
    /\ gets[j].val = outc[NAB].bean
    /\ creatorCalls[NAB] = 1
    /\ StateOf(Cur, NA) = "registered"
    /\ creatorCalls[NA] = 0
    /\ NAB \in Range(registrations[NA].children)

\* The names under which the registration made by register call k has been
\* taken from the registrations to construct a bean.
ConsumedAs(k) ==
  {n \in AllNames : task[n].pc # "none" /\ task[n].registration.rid = k}

\* Register call k's registration was displaced by a replacement that
\* retained it under no name.
Dropped(k) ==
  \E m \in RegIx : /\ regLog[m].op = "replace" /\ regLog[m].oldRid = k
                    /\ regLog[m].retained = NoName

\* C39: every registration is consumed at most once, also across
\* replacement.  The registration of each register call constructs a bean
\* under at most one name and its creator is invoked at most once; a
\* registration displaced by a replacement without a retained name
\* constructs nothing.
C39_ConsumedOnce ==
  \A k \in RegIx :
    /\ Cardinality(ConsumedAs(k)) <= 1
    /\ \A n \in ConsumedAs(k) : creatorCalls[n] <= 1
    /\ Dropped(k) => ConsumedAs(k) = {}

\* a was replaced with its original retained as b: the retained factory
\* made the bean of b, the new one the bean of a, each invoked once.
C39_Witness ==
  \E m \in RegIx :
    /\ regLog[m].op = "replace" /\ regLog[m].name = NA
    /\ regLog[m].retained = NB
    /\ regLog[regLog[m].oldRid].creator = FactoryOf("ok")
    /\ ConsumedAs(regLog[m].oldRid) = {NB}
    /\ ConsumedAs(m) = {NA}
    /\ creatorCalls[NA] = 1 /\ creatorCalls[NB] = 1
    /\ task[NA].pc = "done" /\ task[NB].pc = "done"

\* What the registrations alone say about a name: its creation fails when
\* the name is not registered, its factory throws, or a direct reference
\* of it fails or leads back to a name on the way (seen).
RECURSIVE FailsByRegistrations(_, _)
FailsByRegistrations(n, seen) ==
  \/ n \in seen
  \/ ~\E k \in RegIx : regLog[k].name = n
  \/ \E k \in RegIx :
       /\ regLog[k].name = n
       /\ \/ regLog[k].creator.behav # "ok"
          \/ \E e \in DirectEdges :
               e[1] = n /\ FailsByRegistrations(e[2], seen \cup {n})

\* C40: outcomes do not depend on retrieval order.  With the registrations
\* fixed before the first get and only direct-reference, promise and
\* promiser dependencies, every get(n) ends, and ends in success or in
\* failure as the registrations alone decide, whatever gets came before it
\* and however the continuations interleave.
C40_OrderIndependent ==
  \A i \in 1..MaxGets :
    (i \in GetIx /\ gets[i].via = "get")
      ~> (/\ i \in GetIx /\ Done(i)
          /\ (gets[i].st = "fail") = FailsByRegistrations(gets[i].name, {}))

====
